---------------------------- MODULE Spec2Model ----------------------------
(***************************************************************************)
(* Conversation memory and context assembly of kapi-lite.                  *)
(*                                                                         *)
(* Text is a sequence of tokens: a tag ("<context>", "</svg>", ...), a     *)
(* word, or a block of characters.  The regular expressions of the source  *)
(* only look at the tags, so they are translated token by token.           *)
(* The conversation store is the IndexedDB object store keyed by id; each  *)
(* service call of conversationService is one atomic step on it, and the   *)
(* turn of ChatContext.sendMessage is cut at its awaits.                   *)
(***************************************************************************)
EXTENDS Integers, Sequences, FiniteSets, TLC

\* ------------------------------------------------------------------ bounds
MaxTurns == 1
MaxOps == 1
MaxConvs == 2
MaxCtxMsgs == 3
MaxBudget == 3
MaxTextLen == 3
MaxParts == 2
MaxPartLen == 1
MaxCalls == 2
MaxSends == 3
MaxTicks == 4
MaxSegs == 2
MaxWaitRetries == 2
MaxInits == 3

\* ------------------------------------------------------- program constants
SUMMARY_THRESHOLD == 8
MAX_CONTEXT_WINDOW == 8000
TOKEN_ESTIMATE_RATIO == 4
maxRetries == 3
MIN_MESSAGE_INTERVAL == 2000
CS_SUMMARY_MIN == 10
CS_RECENT == 10

\* ------------------------------------------------------------------- text
CtxOpen == "<context>"
CtxClose == "</context>"
ThinkOpen == "<think>"
ThinkClose == "</think>"
SvgOpen == "<svg"
SvgClose == "</svg>"
\* The triple-backtick fence of a code block.
Fence == "FENCE"
NL == "\n"

Whitespace == {NL, " "}

\* The words addContextToMessage looks for in the lower-cased message.
Keywords == {"button", "color", "change", "modify", "update", "svg", "mockup"}

\* Number of characters of a token; "PASTE" stands for a pasted block of
\* 32004 characters (8001 estimated tokens).
TokLen(t) ==
  CASE t = "PASTE" -> 32004
    [] t = CtxOpen -> 9
    [] t = CtxClose -> 10
    [] t = ThinkOpen -> 7
    [] t = ThinkClose -> 8
    [] t = SvgOpen -> 4
    [] t = SvgClose -> 6
    [] t = Fence -> 3
    [] t = "Hello" -> 5
    [] t = "change" -> 6
    [] t = "abcdefgh" -> 8
    [] OTHER -> 1

RECURSIVE TextLen(_)
TextLen(text) ==
  IF text = <<>> THEN 0 ELSE TokLen(Head(text)) + TextLen(Tail(text))

\* Index of the first occurrence of tok in text at or after position from, 0
\* when there is none.
RECURSIVE IndexFrom(_, _, _)
IndexFrom(text, tok, from) ==
  IF from > Len(text) THEN 0
  ELSE IF text[from] = tok THEN from
  ELSE IndexFrom(text, tok, from + 1)

Includes(text, tok) == IndexFrom(text, tok, 1) # 0

RECURSIVE TrimLeft(_)
TrimLeft(text) ==
  IF text # <<>> /\ Head(text) \in Whitespace THEN TrimLeft(Tail(text)) ELSE text

RECURSIVE TrimRight(_)
TrimRight(text) ==
  IF text # <<>> /\ text[Len(text)] \in Whitespace
  THEN TrimRight(SubSeq(text, 1, Len(text) - 1))
  ELSE text

Trim(text) == TrimRight(TrimLeft(text))

\* text.replace(/<open>[\s\S]*?<close>/g, empty): every leftmost shortest region
\* from an opening tag to the next closing tag is deleted.
RECURSIVE RemoveRegions(_, _, _)
RemoveRegions(text, open, close) ==
  LET i == IndexFrom(text, open, 1)
      j == IF i = 0 THEN 0 ELSE IndexFrom(text, close, i + 1)
  IN IF j = 0 THEN text
     ELSE SubSeq(text, 1, i - 1)
            \o RemoveRegions(SubSeq(text, j + 1, Len(text)), open, close)

removeThinkTags(text) == Trim(RemoveRegions(text, ThinkOpen, ThinkClose))

removeContextTags(text) == Trim(RemoveRegions(text, CtxOpen, CtxClose))

\* text.match(/<open>[\s\S]*?<close>/g): the matched regions, in order.
RECURSIVE MatchRegions(_, _, _)
MatchRegions(text, open, close) ==
  LET i == IndexFrom(text, open, 1)
      j == IF i = 0 THEN 0 ELSE IndexFrom(text, close, i + 1)
  IN IF j = 0 THEN <<>>
     ELSE <<SubSeq(text, i, j)>>
            \o MatchRegions(SubSeq(text, j + 1, Len(text)), open, close)

SvgMatches(text) == MatchRegions(text, SvgOpen, SvgClose)

CodeMatches(text) == MatchRegions(text, Fence, Fence)

HasContextBlock(text) ==
  LET i == IndexFrom(text, CtxOpen, 1)
  IN i # 0 /\ IndexFrom(text, CtxClose, i + 1) # 0

estimateTokenCount(text) ==
  (TextLen(text) + TOKEN_ESTIMATE_RATIO - 1) \div TOKEN_ESTIMATE_RATIO


\* ------------------------------------------------------ messages, records
Unset == "<unset>"

\* JavaScript truthiness of an optional string.
Truthy(str) == str # Unset /\ str # ""

Message(id, role, content) ==
  [id |-> id, role |-> role, content |-> content,
   ref |-> "none", ctype |-> "none", loading |-> FALSE]

NoGC == [def |-> FALSE, svg |-> <<>>, code |-> <<>>]

NoOpts == [summary |-> Unset, hasGc |-> FALSE, svg |-> <<>>, code |-> <<>>]

\* The fixed texts of the source, one token each.
ErrorText == <<"Sorry, I encountered an error processing your request. Please try again later.">>
ThinkingText == <<"Thinking...">>
SvgGeneratedText == <<"An SVG mockup has been generated.">>
ContextInstruction == <<CtxOpen, "I'm referring to the SVG mockup", CtxClose, NL>>

Last(seq) == seq[Len(seq)]

RECURSIVE FlatMap(_, _)
FlatMap(Op(_), seq) ==
  IF seq = <<>> THEN <<>> ELSE Op(Head(seq)) \o FlatMap(Op, Tail(seq))

RECURSIVE SelectSeqBy(_, _)
SelectSeqBy(Test(_), seq) ==
  IF seq = <<>> THEN <<>>
  ELSE (IF Test(Head(seq)) THEN <<Head(seq)>> ELSE <<>>) \o SelectSeqBy(Test, Tail(seq))

Exists(Test(_), seq) == \E i \in 1..Len(seq) : Test(seq[i])

\* Array.prototype.findIndex, 1-based; 0 when no element matches.
RECURSIVE FindIndexFrom(_, _, _)
FindIndexFrom(messages, id, from) ==
  IF from > Len(messages) THEN 0
  ELSE IF messages[from].id = id THEN from
  ELSE FindIndexFrom(messages, id, from + 1)

findIndex(messages, id) == FindIndexFrom(messages, id, 1)

\* ------------------------------------------------- the conversation store
\* IDBObjectStore.put: upsert under the record's key.
Put(st, conv) ==
  [i \in DOMAIN st \cup {conv.id} |-> IF i = conv.id THEN conv ELSE st[i]]

\* IDBObjectStore.delete
Remove(st, id) == [i \in DOMAIN st \ {id} |-> st[i]]

saveConversation(st, conv, t) ==
  Put(st, [conv EXCEPT !.lastModified = IF @ = 0 THEN t ELSE @])

MergeContent(gc, opts) ==
  IF ~opts.hasGc THEN gc
  ELSE [def |-> TRUE,
        svg |-> IF opts.svg # <<>> THEN gc.svg \o opts.svg ELSE gc.svg,
        code |-> IF opts.code # <<>> THEN gc.code \o opts.code ELSE gc.code]

\* The record addMessageToConversation writes; st itself when the record is
\* absent on every retry (the call returns null).
addMessageToConversation(st, id, message, opts, t) ==
  IF id \notin DOMAIN st THEN st
  ELSE Put(st, [st[id] EXCEPT
                  !.messages = Append(@, message),
                  !.lastModified = t,
                  !.summary = IF Truthy(opts.summary) THEN opts.summary ELSE @,
                  !.gc = MergeContent(@, opts)])

updateConversationSummary(st, id, summary, t) ==
  IF id \notin DOMAIN st THEN st
  ELSE Put(st, [st[id] EXCEPT !.summary = summary, !.lastModified = t])

updateConversationContent(st, id, svg, code, t) ==
  IF id \notin DOMAIN st THEN st
  ELSE Put(st, [st[id] EXCEPT
                  !.gc = MergeContent(@, [NoOpts EXCEPT !.hasGc = TRUE,
                                                         !.svg = svg, !.code = code]),
                  !.lastModified = t])

\* Auto-title from the first message: its first 50 characters (every text of
\* the model is shorter than that).
AutoTitle(content) == content

NewConversation(id, initialMessage, t) ==
  [id |-> id, title |-> AutoTitle(initialMessage.content),
   messages |-> <<initialMessage>>, createdAt |-> t, lastModified |-> t,
   summary |-> Unset, gc |-> NoGC]

EmptyConversation(id, t) ==
  [id |-> id, title |-> <<>>, messages |-> <<>>, createdAt |-> t,
   lastModified |-> t, summary |-> Unset, gc |-> NoGC]

\* ------------------------------------------------------------ fork engine
getMessagePathToTarget(messages, targetId, startFromTarget) ==
  LET targetIndex == findIndex(messages, targetId)
  IN IF targetIndex = 0 THEN messages
     ELSE IF startFromTarget THEN SubSeq(messages, targetIndex, Len(messages))
     ELSE SubSeq(messages, 1, targetIndex)

getRelatedBranches(messages, targetId, startFromTarget) == messages

\* Fork options: messageId 0 stands for an absent messageId.
ForkedMessagesService(messages, options) ==
  IF options.visibleMessagesOnly
  THEN IF options.messageId # 0
       THEN getMessagePathToTarget(messages, options.messageId, options.startFromMessage)
       ELSE messages
  ELSE IF ~options.includeAllBranches
  THEN IF options.messageId # 0
       THEN getRelatedBranches(messages, options.messageId, options.startFromMessage)
       ELSE messages
  ELSE messages

ForkedMessagesContext(messages, options) ==
  LET messageIndex == findIndex(messages, options.messageId)
  IN IF options.startFromMessage /\ options.messageId # 0 /\ messageIndex > 0
     THEN SubSeq(messages, messageIndex, Len(messages))
     ELSE messages

ForkTitle(title) == <<"Fork of">> \o (IF title # <<>> THEN title ELSE <<"Untitled">>)

\* ForkRecord that keeps the id of the source: the fork is saved over it.
ForkRecordInPlace(source, messages, newId, t) ==
  [id |-> source.id, title |-> ForkTitle(source.title), messages |-> messages,
   createdAt |-> t, lastModified |-> t, summary |-> Unset, gc |-> source.gc]

ForkRecord(source, messages, newId, t) ==
  [id |-> newId, title |-> ForkTitle(source.title), messages |-> messages,
   createdAt |-> t, lastModified |-> t, summary |-> Unset, gc |-> source.gc]

\* ------------------------------------------------------- LangChain memory
\* A chat history is a sequence of [type, content]; loadMemoryVariables
\* returns it whole (no summary buffer is ever filled: saveContext is never
\* called).
Human(content) == [type |-> "human", content |-> content]
Ai(content) == [type |-> "ai", content |-> content]
System(content) == [type |-> "system", content |-> content]

HistoryEntry(message) ==
  IF message.role = "user" THEN <<Human(message.content)>>
  ELSE IF message.role = "assistant" THEN <<Ai(message.content)>>
  ELSE <<>>

createConversationMemory(conversation) == FlatMap(HistoryEntry, conversation.messages)

RoleOfType(type) ==
  IF type = "human" THEN "user" ELSE IF type = "ai" THEN "assistant" ELSE "system"

\* Every converted message gets a fresh id: firstId, firstId + 1, ...
convertLangChainMessages(messages, firstId) ==
  [i \in 1..Len(messages) |->
     Message(firstId + i - 1, RoleOfType(messages[i].type), messages[i].content)]

MostRecent(list) == IF list = <<>> THEN <<>> ELSE Last(list)

getMostRecentSvg(conversation) == MostRecent(conversation.gc.svg)

SvgRulesText(svg) ==
  <<"Here is the current complete SVG mockup.">> \o svg \o <<"Important rules for SVG modifications">>

addSvgContext(memory, conversation) ==
  Append(memory, System(SvgRulesText(MostRecent(conversation.gc.svg))))

saveMemoryToConversation(st, memory, conversation, firstId, t) ==
  saveConversation(st,
    [conversation EXCEPT !.messages = convertLangChainMessages(memory, firstId),
                         !.lastModified = t],
    t)

\* ------------------------------------------------------ content extractor
MessageSvgs(message) == SvgMatches(message.content)
MessageCodes(message) == CodeMatches(message.content)

\* The metadata.contentType extractSpecialContent leaves on a message.
TagMessage(message) ==
  [message EXCEPT !.ctype =
     IF CodeMatches(message.content) # <<>> THEN "code"
     ELSE IF SvgMatches(message.content) # <<>> THEN "svg"
     ELSE @]

TagMessages(messages) == [i \in 1..Len(messages) |-> TagMessage(messages[i])]

ExtractedContent(gc, messages) ==
  [def |-> TRUE,
   svg |-> gc.svg \o FlatMap(MessageSvgs, messages),
   code |-> gc.code \o FlatMap(MessageCodes, messages)]

\* The returned copy.  The message objects are shared with the input, so the
\* tags show on both.
extractSpecialContent(conversation, messages) ==
  [conversation EXCEPT !.gc = ExtractedContent(@, messages),
                       !.messages = TagMessages(@)]

\* The caller's conversation after the call: its messages are tagged, and its
\* generatedContent object, when it had one, is the object the copy updated.
AfterExtract(conversation, messages) ==
  [conversation EXCEPT
     !.gc = IF @.def THEN ExtractedContent(@, messages) ELSE @,
     !.messages = TagMessages(@)]

\* ------------------------------------------------------ turn orchestrator
IsKeyword(tok) == tok \in Keywords

addContextToMessage(extractedSvg, message) ==
  IF extractedSvg # <<>> /\ Trim(extractedSvg) # <<>> /\ Head(Trim(extractedSvg)) = SvgOpen
     /\ Exists(IsKeyword, message)
  THEN ContextInstruction \o message
  ELSE message

SvgContextText(svg) ==
  <<"This conversation contains an SVG mockup that was previously generated.">>
    \o svg \o <<"Remember: Always return the complete SVG code">>

CodeContextText(code) ==
  <<"This conversation contains code snippets that were previously shared.">> \o code

\* The chat history processMessageWithLangChain submits to the model.
PromptMemory(updatedConversation, cleanedMessage) ==
  createConversationMemory(updatedConversation)
    \o (IF updatedConversation.gc.svg # <<>>
        THEN <<System(SvgContextText(Last(updatedConversation.gc.svg)))>> ELSE <<>>)
    \o (IF updatedConversation.gc.code # <<>>
        THEN <<System(CodeContextText(Last(updatedConversation.gc.code)))>> ELSE <<>>)
    \o <<Human(cleanedMessage)>>

\* A string response of the model, cleaned.
CleanResponse(raw) == removeContextTags(removeThinkTags(raw))

NotLoading(message) == ~message.loading

\* setMessages of the reply: drop the placeholder, append unless duplicate.
WithReply(messages, assistantMessage) ==
  LET filteredMessages == SelectSeqBy(NotLoading, messages)
      isDuplicate == \E i \in 1..Len(filteredMessages) :
                        /\ filteredMessages[i].role = "assistant"
                        /\ filteredMessages[i].content = assistantMessage.content
  IN IF isDuplicate THEN filteredMessages ELSE Append(filteredMessages, assistantMessage)

\* ------------------------------------------------------------------ state
VARIABLES
  store,            \* the conversation records, by id
  ls,               \* localStorage entries the services use
  nextId,           \* source of the fresh ids (Date.now() + Math.random())
  now,              \* Date.now()
  ui,               \* the React state of ChatProvider
  turn,             \* the sendMessage call in flight, and the last outcome
  prompt,           \* the message list last submitted to the model
  summarizerCalls,  \* number of summarizeConversation calls
  turns,            \* completed sendMessage calls
  ops,              \* other operations performed
  cw,               \* input and output of the context window builders
  fn,               \* a function of the services applied to one input
  svc,              \* the calls of conversationService in flight, by caller
  page,             \* the send handler of the chat page, with its clock
  boot              \* the initialisation state of conversationService

\* The variables the application's handlers leave alone.
aux == <<fn, svc, page, boot>>

vars == <<store, ls, nextId, now, ui, turn, prompt, summarizerCalls, turns, ops, cw, aux>>

UserTexts == {<<"Hello">>, <<"change">>}
SvgReply == <<SvgOpen, "a", SvgClose>>
Replies == {<<"ok">>, SvgReply}
EditTexts == {<<"edited">>}
Summaries == {"s1", "s2"}

IdleTurn ==
  [pc |-> "idle", msg |-> <<>>, withCtx |-> <<>>, userMessage |-> Message(0, "user", <<>>),
   convId |-> 0, conv |-> EmptyConversation(0, 0), updConv |-> EmptyConversation(0, 0),
   memory |-> <<>>, memory2 |-> <<>>, response |-> <<>>, svgMatches |-> <<>>,
   wasNew |-> FALSE, appended |-> FALSE, failed |-> FALSE, outcome |-> "none",
   longNoSummary |-> FALSE, hadSummary |-> FALSE, callsAtStart |-> 0]

NoOptions ==
  [messageId |-> 0, includeAllBranches |-> TRUE, visibleMessagesOnly |-> FALSE,
   startFromMessage |-> FALSE]

NoCw == [conv |-> EmptyConversation(0, 0), budget |-> 0, out |-> <<>>, built |-> "no"]

ClearedUi(u) ==
  [u EXCEPT !.active = 0, !.messages = <<>>, !.extractedSvg = <<>>,
            !.showRightPanel = FALSE]

SelectedUi(u, conversation) ==
  [u EXCEPT !.active = conversation.id,
            !.messages = conversation.messages,
            !.extractedSvg = getMostRecentSvg(conversation),
            !.showRightPanel = (getMostRecentSvg(conversation) # <<>>)]

NoUi == [messages |-> <<>>, active |-> 0, isProcessing |-> FALSE,
         extractedSvg |-> <<>>, showRightPanel |-> FALSE]

\* A conversation as six turns of sendMessage leave it: the six user messages,
\* then the SVG-rules and the reply system messages of the last memory save.
SeedId == SUMMARY_THRESHOLD + 1
SeedConversation ==
  [id |-> SeedId, title |-> <<"Hello">>,
   messages |-> [i \in 1..SUMMARY_THRESHOLD |->
                   IF i <= SUMMARY_THRESHOLD - 2 THEN Message(i, "user", <<"Hello">>)
                   ELSE IF i = SUMMARY_THRESHOLD - 1
                        THEN Message(i, "system", SvgRulesText(<<>>))
                   ELSE Message(i, "system", <<"ok">>)],
   createdAt |-> 1, lastModified |-> 1, summary |-> Unset, gc |-> NoGC]

\* The conversation and the UI state one turn answered with an SVG leaves.
SvgSeedId == SeedId + 1
SvgSeedConversation ==
  [id |-> SvgSeedId, title |-> <<"Hello">>,
   messages |-> <<Message(1, "user", <<"Hello">>),
                  Message(2, "system", SvgRulesText(<<>>)),
                  Message(3, "system", SvgReply),
                  Message(4, "system", SvgGeneratedText)>>,
   createdAt |-> 1, lastModified |-> 1, summary |-> Unset, gc |-> NoGC]
SvgSeedUi ==
  [messages |-> <<Message(SvgSeedId + 1, "user", <<"Hello">>),
                  Message(SvgSeedId + 2, "assistant", SvgReply)>>,
   active |-> SvgSeedId, isProcessing |-> FALSE,
   extractedSvg |-> SvgReply, showRightPanel |-> TRUE]

\* No function applied.
NoFn == [kind |-> "none", input |-> <<>>, out |-> <<>>, done |-> FALSE]

\* A caller with no call in flight.
NoCall ==
  [op |-> "none", pc |-> "none", message |-> Message(0, "user", <<>>), convId |-> 0,
   conv |-> EmptyConversation(0, 0), existingId |-> 0, newId |-> 0, retries |-> 0,
   readAt |-> 0, wroteAt |-> 0, reads |-> 0, limit |-> 0, awaits |-> 0]

\* The chat page before any send; Date.now() is far from lastMessageTime = 0.
NoPage ==
  [handler |-> "none", clock |-> MIN_MESSAGE_INTERVAL, lastMessageTime |-> 0,
   isProcessing |-> FALSE, log |-> <<>>]

\* conversationService before any call: isInitialized = false and
\* initPromise = null.  started counts the calls of indexedDBService.init();
\* outcome holds, per call of init(), what became of its promise, and
\* initPromise is the position of the current one, 0 for null.
NoBoot == [isInitialized |-> FALSE, initPromise |-> 0, started |-> 0, outcome |-> <<>>]

\* conversationService after the one initialisation of a running application.
ReadyBoot ==
  [isInitialized |-> TRUE, initPromise |-> 1, started |-> 1, outcome |-> <<"fulfilled">>]

InitAux ==
  /\ fn = NoFn
  /\ svc = [c \in 1..MaxCalls |-> NoCall]
  /\ page = NoPage
  /\ boot = ReadyBoot

InitCommon ==
  /\ now = 1
  /\ turn = IdleTurn
  /\ prompt = <<>>
  /\ summarizerCalls = 0
  /\ turns = 0
  /\ ops = 0

\* The application on start (loadInitialData selects the stored conversation,
\* if there is one), or in the session of the turn that produced an SVG.
Init ==
  /\ InitCommon
  /\ \/ /\ store = <<>>
        /\ ui = NoUi
        /\ ls = [processing |-> FALSE, lastConvId |-> 0]
        /\ nextId = 1
     \/ /\ store = (SeedId :> SeedConversation)
        /\ ui = SelectedUi(NoUi, SeedConversation)
        /\ ls = [processing |-> FALSE, lastConvId |-> SeedId]
        /\ nextId = SeedId + 1
     \/ /\ store = (SvgSeedId :> SvgSeedConversation)
        /\ ui = SvgSeedUi
        /\ ls = [processing |-> FALSE, lastConvId |-> SvgSeedId]
        /\ nextId = SvgSeedId + 3
  /\ cw = NoCw
  /\ InitAux

\* ----------------------------------------------------------- sendMessage
\* Up to the first await: the guard, the context block, the user message.
SendStart(messageContent) ==
  /\ turn.pc = "idle"
  /\ turns < MaxTurns
  /\ ui.active # 0 \/ Cardinality(DOMAIN store) < MaxConvs
  /\ Trim(messageContent) # <<>>
  /\ ~ui.isProcessing
  /\ ui' = [ui EXCEPT !.isProcessing = TRUE,
                      !.messages = Append(@, Message(nextId, "user", messageContent))]
  /\ turn' = [IdleTurn EXCEPT
                !.pc = "resolve",
                !.msg = messageContent,
                !.withCtx = addContextToMessage(ui.extractedSvg, messageContent),
                !.userMessage = Message(nextId, "user", messageContent),
                !.convId = ui.active,
                !.wasNew = (ui.active = 0),
                !.longNoSummary = /\ ui.active \in DOMAIN store
                                  /\ Len(store[ui.active].messages) >= SUMMARY_THRESHOLD
                                  /\ ~Truthy(store[ui.active].summary),
                !.hadSummary = /\ ui.active \in DOMAIN store
                               /\ Truthy(store[ui.active].summary),
                !.callsAtStart = summarizerCalls]
  /\ nextId' = nextId + 1
  /\ UNCHANGED <<store, ls, now, prompt, summarizerCalls, turns, ops, cw, aux>>

\* createConversation run to completion: no creation is in flight, so the
\* marker is unset on entry and cleared on exit.
createConversation(st, initialMessage, id, t) ==
  Put(st, NewConversation(id, initialMessage, t))

\* SendResolve with the append to the active conversation left for later.
SendResolveLater ==
  /\ turn.pc = "resolve"
  /\ IF turn.convId = 0
     THEN /\ store' = createConversation(store, turn.userMessage, nextId, now)
          /\ ls' = [ls EXCEPT !.processing = FALSE, !.lastConvId = nextId]
          /\ turn' = [turn EXCEPT !.pc = "prepare", !.convId = nextId, !.appended = TRUE,
                                  !.conv = NewConversation(nextId, turn.userMessage, now)]
          /\ ui' = [ui EXCEPT !.active = nextId]
          /\ nextId' = nextId + 1
     ELSE /\ turn' = [turn EXCEPT !.pc = "fetch"]
          /\ UNCHANGED <<store, ls, ui, nextId>>
  /\ UNCHANGED <<now, prompt, summarizerCalls, turns, ops, cw, aux>>

\* "Create or get conversation": createConversation, or the append of the
\* user message to the active conversation.
SendResolve ==
  /\ turn.pc = "resolve"
  /\ IF turn.convId = 0
     THEN /\ store' = createConversation(store, turn.userMessage, nextId, now)
          /\ ls' = [ls EXCEPT !.processing = FALSE, !.lastConvId = nextId]
          /\ turn' = [turn EXCEPT !.pc = "prepare", !.convId = nextId, !.appended = TRUE,
                                  !.conv = NewConversation(nextId, turn.userMessage, now)]
          /\ ui' = [ui EXCEPT !.active = nextId]
          /\ nextId' = nextId + 1
     ELSE /\ store' = addMessageToConversation(store, turn.convId, turn.userMessage, NoOpts, now)
          /\ turn' = [turn EXCEPT !.pc = "fetch",
                                  !.appended = (turn.convId \in DOMAIN store)]
          /\ UNCHANGED <<ls, ui, nextId>>
  /\ UNCHANGED <<now, prompt, summarizerCalls, turns, ops, cw, aux>>

SendFetchGuess ==
  /\ turn.pc = "fetch"
  /\ turn' = [turn EXCEPT !.pc = "prepare",
                          !.conv = IF turn.convId \in DOMAIN store
                                   THEN store[turn.convId]
                                   ELSE NewConversation(turn.convId, turn.userMessage, now)]
  /\ UNCHANGED <<store, ls, nextId, now, ui, prompt, summarizerCalls, turns, ops, cw, aux>>

\* getConversation after the append; a missing record ends the turn in the
\* outer catch.
SendFetch ==
  /\ turn.pc = "fetch"
  /\ IF turn.convId \in DOMAIN store
     THEN /\ turn' = [turn EXCEPT !.pc = "prepare", !.conv = store[turn.convId]]
          /\ UNCHANGED <<ui, turns>>
     ELSE /\ turn' = [turn EXCEPT !.pc = "idle", !.outcome = "notfound"]
          /\ ui' = [ui EXCEPT !.isProcessing = FALSE]
          /\ turns' = turns + 1
  /\ UNCHANGED <<store, ls, nextId, now, prompt, summarizerCalls, ops, cw, aux>>

\* The loading placeholder, the memory of sendMessage with its SVG context,
\* and processMessageWithLangChain up to the model call.
SendPrepare ==
  /\ turn.pc = "prepare"
  /\ ui' = [ui EXCEPT !.messages =
              Append(@, [Message(nextId, "assistant", ThinkingText) EXCEPT !.loading = TRUE])]
  /\ nextId' = nextId + 1
  /\ turn' = [turn EXCEPT
                !.pc = "invoke",
                !.memory = addSvgContext(createConversationMemory(turn.conv), turn.conv),
                !.updConv = extractSpecialContent(turn.conv, turn.conv.messages),
                !.conv = AfterExtract(turn.conv, turn.conv.messages),
                !.memory2 = PromptMemory(extractSpecialContent(turn.conv, turn.conv.messages),
                                         removeThinkTags(turn.withCtx))]
  /\ UNCHANGED <<store, ls, now, prompt, summarizerCalls, turns, ops, cw, aux>>

\* model.invoke(messages): a reply, or an exception.  The call takes time:
\* Date.now() is later after it.
SendInvoke ==
  /\ turn.pc = "invoke"
  /\ prompt' = turn.memory2
  /\ now' = now + 1
  /\ \/ \E raw \in Replies :
          turn' = [turn EXCEPT !.pc = "pmSave",
                               !.response = CleanResponse(raw),
                               !.memory2 = Append(@, System(CleanResponse(raw)))]
     \/ turn' = [turn EXCEPT !.pc = "fail", !.failed = TRUE]
  /\ UNCHANGED <<store, ls, nextId, ui, summarizerCalls, turns, ops, cw, aux>>

\* saveMemoryToConversation(memory, updatedConversation) at the end of
\* processMessageWithLangChain.
SendPmSave ==
  /\ turn.pc = "pmSave"
  /\ store' = saveMemoryToConversation(store, turn.memory2, turn.updConv, nextId, now)
  /\ nextId' = nextId + Len(turn.memory2)
  /\ turn' = [turn EXCEPT !.pc = "reply"]
  /\ UNCHANGED <<ls, now, ui, prompt, summarizerCalls, turns, ops, cw, aux>>

\* SendReply without the duplicate check.
SendReplyAlways ==
  /\ turn.pc = "reply"
  /\ ui' = [ui EXCEPT !.messages = Append(SelectSeqBy(NotLoading, @),
                                          Message(nextId, "assistant", turn.response))]
  /\ store' = addMessageToConversation(store, turn.convId,
                 Message(nextId, "assistant", turn.response), NoOpts, now)
  /\ nextId' = nextId + 1
  /\ turn' = [turn EXCEPT !.pc = "memSave"]
  /\ UNCHANGED <<ls, now, prompt, summarizerCalls, turns, ops, cw, aux>>

\* The assistant message: into the UI list, then appended to the record.
SendReply ==
  /\ turn.pc = "reply"
  /\ ui' = [ui EXCEPT !.messages = WithReply(@, Message(nextId, "assistant", turn.response))]
  /\ store' = addMessageToConversation(store, turn.convId,
                 Message(nextId, "assistant", turn.response), NoOpts, now)
  /\ nextId' = nextId + 1
  /\ turn' = [turn EXCEPT !.pc = "memSave"]
  /\ UNCHANGED <<ls, now, prompt, summarizerCalls, turns, ops, cw, aux>>

\* The reply goes into the memory of sendMessage as a system message and the
\* memory is saved over the record; then the SVG check of the response.
SendMemSave ==
  /\ turn.pc = "memSave"
  /\ store' = saveMemoryToConversation(store, Append(turn.memory, System(turn.response)),
                                       turn.conv, nextId, now)
  /\ nextId' = nextId + Len(turn.memory) + 1
  /\ LET svgMatches == SvgMatches(turn.response)
     IN IF svgMatches # <<>>
        THEN /\ ui' = [ui EXCEPT !.extractedSvg = Last(svgMatches), !.showRightPanel = TRUE]
             /\ turn' = [turn EXCEPT !.pc = "svgContent", !.svgMatches = svgMatches,
                                     !.memory = Append(@, System(turn.response))]
        ELSE /\ ui' = ui
             /\ turn' = [turn EXCEPT !.pc = "refresh",
                                     !.memory = Append(@, System(turn.response))]
  /\ UNCHANGED <<ls, now, prompt, summarizerCalls, turns, ops, cw, aux>>

SendSvgContent ==
  /\ turn.pc = "svgContent"
  /\ store' = updateConversationContent(store, turn.convId, turn.svgMatches, <<>>, now)
  /\ turn' = [turn EXCEPT !.pc = "svgSys"]
  /\ UNCHANGED <<ls, nextId, now, ui, prompt, summarizerCalls, turns, ops, cw, aux>>

\* The hidden system message about the generated SVG.
SendSvgSys ==
  /\ turn.pc = "svgSys"
  /\ store' = addMessageToConversation(store, turn.convId,
                 [Message(nextId, "system", SvgGeneratedText) EXCEPT
                    !.ref = "svg_context", !.ctype = "system_instruction"],
                 NoOpts, now)
  /\ nextId' = nextId + 1
  /\ turn' = [turn EXCEPT !.pc = "svgSave"]
  /\ UNCHANGED <<ls, now, ui, prompt, summarizerCalls, turns, ops, cw, aux>>

SendSvgSave ==
  /\ turn.pc = "svgSave"
  /\ store' = saveMemoryToConversation(store, Append(turn.memory, System(SvgGeneratedText)),
                                       turn.conv, nextId, now)
  /\ nextId' = nextId + Len(turn.memory) + 1
  /\ turn' = [turn EXCEPT !.pc = "refresh",
                          !.memory = Append(@, System(SvgGeneratedText))]
  /\ UNCHANGED <<ls, now, ui, prompt, summarizerCalls, turns, ops, cw, aux>>

\* SendFail without the write to the store: the error shows in the UI only.
SendFailUiOnly ==
  /\ turn.pc = "fail"
  /\ ui' = [ui EXCEPT !.messages =
              Append(SelectSeqBy(NotLoading, @), Message(nextId, "assistant", ErrorText))]
  /\ nextId' = nextId + 1
  /\ turn' = [turn EXCEPT !.pc = "refresh"]
  /\ UNCHANGED <<store, ls, now, prompt, summarizerCalls, turns, ops, cw, aux>>

\* SendFail that appends the error message and leaves the placeholder.
SendFailKeepLoading ==
  /\ turn.pc = "fail"
  /\ ui' = [ui EXCEPT !.messages = Append(@, Message(nextId, "assistant", ErrorText))]
  /\ store' = addMessageToConversation(store, turn.convId,
                 Message(nextId, "assistant", ErrorText), NoOpts, now)
  /\ nextId' = nextId + 1
  /\ turn' = [turn EXCEPT !.pc = "refresh"]
  /\ UNCHANGED <<ls, now, prompt, summarizerCalls, turns, ops, cw, aux>>

\* catch (aiError): the error message replaces the placeholder and is stored.
SendFail ==
  /\ turn.pc = "fail"
  /\ ui' = [ui EXCEPT !.messages =
              Append(SelectSeqBy(NotLoading, @), Message(nextId, "assistant", ErrorText))]
  /\ store' = addMessageToConversation(store, turn.convId,
                 Message(nextId, "assistant", ErrorText), NoOpts, now)
  /\ nextId' = nextId + 1
  /\ turn' = [turn EXCEPT !.pc = "refresh"]
  /\ UNCHANGED <<ls, now, prompt, summarizerCalls, turns, ops, cw, aux>>

\* loadConversations, then finally: setIsProcessing(false).
SendRefresh ==
  /\ turn.pc = "refresh"
  /\ ui' = [ui EXCEPT !.isProcessing = FALSE]
  /\ turn' = [turn EXCEPT !.pc = "idle",
                          !.outcome = IF turn.failed THEN "error" ELSE "ok"]
  /\ turns' = turns + 1
  /\ UNCHANGED <<store, ls, nextId, now, prompt, summarizerCalls, ops, cw, aux>>

\* The steps of a turn after its start.
SendSteps ==
  \/ SendResolve
  \/ SendFetch
  \/ SendPrepare
  \/ SendInvoke
  \/ SendPmSave
  \/ SendReply
  \/ SendMemSave
  \/ SendSvgContent
  \/ SendSvgSys
  \/ SendSvgSave
  \/ SendFail
  \/ SendRefresh

SendMessage ==
  \/ \E messageContent \in UserTexts : SendStart(messageContent)
  \/ SendSteps

\* -------------------------------------------------- the other UI handlers
selectConversation(id) ==
  /\ ops < MaxOps
  /\ id \in DOMAIN store
  /\ ui' = SelectedUi(ui, store[id])
  /\ ops' = ops + 1
  /\ UNCHANGED <<store, ls, nextId, now, turn, prompt, summarizerCalls, turns, cw, aux>>

newConversation ==
  /\ ops < MaxOps
  /\ Cardinality(DOMAIN store) < MaxConvs
  /\ ui' = ClearedUi(ui)
  /\ store' = saveConversation(store, EmptyConversation(nextId, now), now)
  /\ nextId' = nextId + 1
  /\ ops' = ops + 1
  /\ UNCHANGED <<ls, now, turn, prompt, summarizerCalls, turns, cw, aux>>

\* Deleting the active conversation runs newConversation.
deleteConversation(id) ==
  /\ ops < MaxOps
  /\ id \in DOMAIN store
  /\ IF ui.active = id
     THEN /\ ui' = ClearedUi(ui)
          /\ store' = saveConversation(Remove(store, id), EmptyConversation(nextId, now), now)
          /\ nextId' = nextId + 1
     ELSE /\ store' = Remove(store, id)
          /\ UNCHANGED <<ui, nextId>>
  /\ ops' = ops + 1
  /\ UNCHANGED <<ls, now, turn, prompt, summarizerCalls, turns, cw, aux>>

EditedMessages(messages, messageId, newContent) ==
  [i \in 1..Len(messages) |->
     IF messages[i].id = messageId THEN [messages[i] EXCEPT !.content = newContent]
     ELSE messages[i]]

editMessage(messageId, newContent) ==
  /\ ops < MaxOps
  /\ ui.active \in DOMAIN store
  /\ LET updatedMessages == EditedMessages(store[ui.active].messages, messageId, newContent)
     IN /\ store' = saveConversation(store,
                      [store[ui.active] EXCEPT !.messages = updatedMessages,
                                               !.lastModified = now], now)
        /\ ui' = [ui EXCEPT !.messages = updatedMessages]
  /\ ops' = ops + 1
  /\ UNCHANGED <<ls, nextId, now, turn, prompt, summarizerCalls, turns, cw, aux>>

\* ------------------------------------------------------------------- fork
\* An id no message has.
MissingId == 0 - 1

\* The messageId values a fork is tried with: none, one no message has, and
\* the id of the second message (of the only one, when there is one).
ForkTargets(messages) ==
  {0, MissingId}
    \cup {messages[i].id : i \in {j \in 1..Len(messages) : j = 2 \/ j = Len(messages)} \cap 1..2}

ForkOptions(messages) ==
  [messageId : ForkTargets(messages), includeAllBranches : BOOLEAN,
   visibleMessagesOnly : BOOLEAN, startFromMessage : BOOLEAN]

\* forkConversation of ChatContext: the fork the message menu runs.
forkConversationUI(options) ==
  /\ ops < MaxOps
  /\ ui.active \in DOMAIN store
  /\ Cardinality(DOMAIN store) < MaxConvs
  /\ LET sourceConversation == store[ui.active]
         forked == ForkRecord(sourceConversation,
                     ForkedMessagesContext(sourceConversation.messages, options),
                     nextId, now)
     IN /\ store' = saveConversation(store, forked, now)
        /\ ui' = SelectedUi(ui, forked)
  /\ nextId' = nextId + 1
  /\ ops' = ops + 1
  /\ UNCHANGED <<ls, now, turn, prompt, summarizerCalls, turns, cw, aux>>

\* forkConversation of conversationService.
forkConversation(sourceConversationId, options) ==
  /\ ops < MaxOps
  /\ sourceConversationId \in DOMAIN store
  /\ Cardinality(DOMAIN store) < MaxConvs
  /\ LET sourceConversation == store[sourceConversationId]
     IN store' = saveConversation(store,
                   ForkRecord(sourceConversation,
                     ForkedMessagesService(sourceConversation.messages, options),
                     nextId, now), now)
  /\ nextId' = nextId + 1
  /\ ops' = ops + 1
  /\ UNCHANGED <<ls, now, ui, turn, prompt, summarizerCalls, turns, cw, aux>>

\* ------------------------------------------------- summary, content update
\* --------------------------------------------------- the model of a turn
\* The models of langchainConfig, by id and provider.
AVAILABLE_MODELS ==
  <<[id |-> "gemini-pro", provider |-> "gemini"],
    [id |-> "gemini-flash", provider |-> "gemini"],
    [id |-> "groq-deepseek", provider |-> "groq"],
    [id |-> "groq-llama3", provider |-> "groq"],
    [id |-> "groq-llama4", provider |-> "groq"]>>

\* id.startsWith('ollama-'), on the ids the model is tried with.
IsOllamaId(id) == id \in {"ollama-llama2", "ollama-mistral"}

\* null, where a model is expected.
NoModel == [id |-> Unset, provider |-> Unset]

\* AVAILABLE_MODELS.find(m => m.id === id), NoModel when there is none.
FindModel(id) ==
  LET i == findIndex(AVAILABLE_MODELS, id)
  IN IF i = 0 THEN NoModel ELSE AVAILABLE_MODELS[i]

\* loadSelectedModel on the two persisted entries (Unset: no entry).
loadSelectedModel(savedModelId, savedProviderEntry) ==
  LET savedProvider == IF savedProviderEntry = Unset THEN "ollama" ELSE savedProviderEntry
      providerModels == SelectSeq(AVAILABLE_MODELS, LAMBDA m : m.provider = savedProvider)
  IN IF savedModelId # Unset /\ IsOllamaId(savedModelId)
     THEN [id |-> savedModelId, provider |-> "ollama"]
     ELSE IF savedModelId # Unset /\ FindModel(savedModelId) # NoModel
     THEN FindModel(savedModelId)
     ELSE IF savedProvider = "ollama" THEN [id |-> "ollama-llama2", provider |-> "ollama"]
     ELSE IF providerModels # <<>> THEN providerModels[1]
     ELSE AVAILABLE_MODELS[1]

\* "Determine which model to use" of processMessageWithLangChain: the model,
\* the 'kapi_initialMessage' entry afterwards, and whether 'No model selected'
\* is thrown.
SelectModel(in) ==
  LET loadedModel == loadSelectedModel(in.savedModelId, in.savedProvider)
      selectedModel ==
        IF in.initialMessageData.present THEN in.initialMessageData.model
        ELSE IF in.selectedModelId # Unset
        THEN IF FindModel(in.selectedModelId) # NoModel
             THEN FindModel(in.selectedModelId)
             ELSE loadedModel
        ELSE IF loadedModel # NoModel THEN loadedModel
        ELSE AVAILABLE_MODELS[1]
  IN [selectedModel |-> selectedModel,
      initialMessageData |-> [present |-> FALSE, model |-> NoModel],
      noModelSelected |-> (selectedModel = NoModel)]

\* The selections tried: a payload as HomePage writes it (with the model it has
\* selected), an id passed by the caller, the persisted id and provider.
ModelInputs ==
  [initialMessageData : {[present |-> FALSE, model |-> NoModel],
                         [present |-> TRUE, model |-> AVAILABLE_MODELS[1]],
                         [present |-> TRUE,
                          model |-> [id |-> "ollama-mistral", provider |-> "ollama"]]},
   selectedModelId : {Unset, "gemini-flash", "ollama-mistral", "no-such-model"},
   savedModelId : {Unset, "groq-llama3", "ollama-llama2", "no-such-model"},
   savedProvider : {Unset, "gemini", "openai", "anthropic", "groq", "ollama"}]

ResolveModel ==
  /\ fn.kind = "model" /\ ~fn.done
  /\ fn' = [fn EXCEPT !.out = SelectModel(fn.input), !.done = TRUE]
  /\ UNCHANGED <<store, ls, nextId, now, ui, turn, prompt, summarizerCalls, turns, ops, cw, svc, page, boot>>

\* --------------------------------------------------------- the summarizer
\* What the model gateway does with the summary prompt: it fails (no API key,
\* the request is rejected), or it answers with a text, which is empty for a
\* response without text.
GatewayOutcomes ==
  {[failed |-> TRUE, content |-> ""]}
    \cup {[failed |-> FALSE, content |-> c] : c \in Summaries \cup {""}}

\* The models summarizeConversation resolves: none, or one of the list.
SummaryModels == {NoModel, AVAILABLE_MODELS[1]}

summarizeConversationRaising(messages, selectedModel, gateway) ==
  IF Len(messages) < 3 THEN ""
  ELSE IF selectedModel = NoModel THEN "No model selected"
  ELSE IF gateway.failed THEN "Error summarizing conversation"
  ELSE gateway.content

\* summarizeConversation: the empty string for fewer than three messages, for
\* no model and for any error, the text of the response otherwise.
summarizeConversation(messages, selectedModel, gateway) ==
  IF Len(messages) < 3 THEN ""
  ELSE IF selectedModel = NoModel THEN ""
  ELSE IF gateway.failed THEN ""
  ELSE gateway.content

\* What summarizeConversation returns: the model's text, or the empty string
\* (fewer than three messages, no model, or an error).
SummarizerResults(messages) ==
  {summarizeConversation(messages, selectedModel, gateway) :
     selectedModel \in SummaryModels, gateway \in GatewayOutcomes}

UpdateConversationSummary(id, summary) ==
  /\ ops < MaxOps
  /\ store' = updateConversationSummary(store, id, summary, now)
  /\ ops' = ops + 1
  /\ UNCHANGED <<ls, nextId, now, ui, turn, prompt, summarizerCalls, turns, cw, aux>>

\* updateConversationWithContent of the memory manager, for a message with
\* the given content, with the model the summarizer resolves and what the
\* gateway does.  fn keeps the summarizer's call and its result.
UpdateConversationWithContent(conversationId, content, selectedModel, gateway) ==
  /\ ops < MaxOps
  /\ conversationId \in DOMAIN store
  /\ LET conversation == store[conversationId]
         message == Message(nextId, "assistant", content)
         summarize == /\ Len(conversation.messages) >= SUMMARY_THRESHOLD
                      /\ ~Truthy(conversation.summary)
         result == IF summarize
                   THEN summarizeConversation(Append(conversation.messages, message),
                                              selectedModel, gateway)
                   ELSE IF Truthy(conversation.summary) THEN conversation.summary ELSE ""
     IN /\ summarizerCalls' = IF summarize THEN summarizerCalls + 1 ELSE summarizerCalls
        /\ fn' = IF summarize
                 THEN [kind |-> "summary",
                       input |-> [conversationId |-> conversationId, message |-> message,
                                  selectedModel |-> selectedModel, gateway |-> gateway],
                       out |-> result, done |-> TRUE]
                 ELSE fn
        /\ store' = addMessageToConversation(store, conversationId, message,
                      [summary |-> IF Truthy(result) THEN result ELSE Unset,
                       hasGc |-> TRUE,
                       svg |-> MessageSvgs(message), code |-> MessageCodes(message)],
                      now)
  /\ nextId' = nextId + 1
  /\ ops' = ops + 1
  /\ UNCHANGED <<ls, now, ui, turn, prompt, turns, cw, svc, page, boot>>

\* ------------------------------------------------ context window builders
IsSvgContext(msg) == msg.role = "system" /\ msg.ref = "svg_context"

\* The virtual system message that carries the summary.
SummaryMessage(summary) ==
  [Message(0, "system", <<"Conversation context:", summary>>) EXCEPT !.ref = "summary"]

\* ContextWalk with push in place of unshift: the output is newest first.
RECURSIVE ContextWalkPush(_, _, _, _, _, _)
ContextWalkPush(messages, i, tokenCount, contextMessages, skipId, maxTokens) ==
  IF i = 0 THEN contextMessages
  ELSE IF messages[i].id = skipId
       THEN ContextWalkPush(messages, i - 1, tokenCount, contextMessages, skipId, maxTokens)
  ELSE IF tokenCount + estimateTokenCount(messages[i].content) > maxTokens
       THEN contextMessages
  ELSE ContextWalkPush(messages, i - 1,
                       tokenCount + estimateTokenCount(messages[i].content),
                       contextMessages \o <<messages[i]>>, skipId, maxTokens)

\* The loop of chatService.prepareConversationContext over the reversed
\* messages: position i downwards, stopping at the first message that does
\* not fit.
RECURSIVE ContextWalk(_, _, _, _, _, _)
ContextWalk(messages, i, tokenCount, contextMessages, skipId, maxTokens) ==
  IF i = 0 THEN contextMessages
  ELSE IF messages[i].id = skipId
       THEN ContextWalk(messages, i - 1, tokenCount, contextMessages, skipId, maxTokens)
  ELSE IF tokenCount + estimateTokenCount(messages[i].content) > maxTokens
       THEN contextMessages
  ELSE ContextWalk(messages, i - 1,
                   tokenCount + estimateTokenCount(messages[i].content),
                   <<messages[i]>> \o contextMessages, skipId, maxTokens)

\* prepareConversationContext of chatService.
prepareConversationContext(conversation, maxTokens) ==
  LET svgSystemMessages == SelectSeqBy(IsSvgContext, conversation.messages)
      hasSvg == svgSystemMessages # <<>>
      latest == IF hasSvg THEN <<Last(svgSystemMessages)>> ELSE <<>>
      n == Len(conversation.messages)
  IN IF Truthy(conversation.summary) /\ n > CS_SUMMARY_MIN
     THEN latest \o <<SummaryMessage(conversation.summary)>>
            \o SubSeq(conversation.messages, n - CS_RECENT + 1, n)
     ELSE ContextWalk(conversation.messages, n,
                      IF hasSvg THEN estimateTokenCount(latest[1].content) ELSE 0,
                      latest,
                      IF hasSvg THEN latest[1].id ELSE MissingId,
                      maxTokens)

\* The loop of memoryManager.prepareConversationContext.
RECURSIVE WindowWalk(_, _, _, _)
WindowWalk(messages, i, tokenCount, contextMessages) ==
  IF i = 0 THEN contextMessages
  ELSE IF tokenCount + estimateTokenCount(messages[i].content) > MAX_CONTEXT_WINDOW
       THEN contextMessages
  ELSE WindowWalk(messages, i - 1,
                  tokenCount + estimateTokenCount(messages[i].content),
                  <<messages[i]>> \o contextMessages)

\* prepareConversationContext of the memory manager: the messages of the
\* conversation it returns.
prepareConversationContextMM(conversation) ==
  LET n == Len(conversation.messages)
  IN IF Truthy(conversation.summary) /\ n > SUMMARY_THRESHOLD
     THEN SubSeq(conversation.messages, n - SUMMARY_THRESHOLD + 1, n)
     ELSE IF n > SUMMARY_THRESHOLD
     THEN WindowWalk(conversation.messages, n, 0, <<>>)
     ELSE conversation.messages

\* Conversations the builders are applied to: Pad short filler messages, then
\* up to MaxCtxMsgs messages of these kinds.
TailKinds == {"small", "word", "paste", "svgctx"}

KindMessage(id, kind) ==
  CASE kind = "small" -> Message(id, "user", <<"Hello">>)
    [] kind = "word" -> Message(id, "assistant", <<"abcdefgh">>)
    [] kind = "paste" -> Message(id, "user", <<"PASTE">>)
    [] kind = "svgctx" -> [Message(id, "system", SvgGeneratedText) EXCEPT
                             !.ref = "svg_context", !.ctype = "system_instruction"]

Pads == {0, SUMMARY_THRESHOLD, CS_SUMMARY_MIN}

Tails == UNION {[1..k -> TailKinds] : k \in 0..MaxCtxMsgs}

CtxConversation(pad, tail, summary) ==
  [EmptyConversation(1, 1) EXCEPT
     !.messages = [i \in 1..(pad + Len(tail)) |->
                     IF i <= pad THEN Message(i, "user", <<"x">>)
                     ELSE KindMessage(i, tail[i - pad])],
     !.summary = summary]

Budgets == 0..MaxBudget \cup {MAX_CONTEXT_WINDOW}

InitCtx ==
  /\ InitCommon
  /\ store = <<>>
  /\ ui = NoUi
  /\ ls = [processing |-> FALSE, lastConvId |-> 0]
  /\ nextId = 1
  /\ \E pad \in Pads, tail \in Tails, summary \in {Unset, "s1"}, budget \in Budgets :
       cw = [NoCw EXCEPT !.conv = CtxConversation(pad, tail, summary), !.budget = budget]
  /\ InitAux

BuildContext ==
  /\ cw.built = "no"
  /\ cw' = [cw EXCEPT !.out = prepareConversationContext(cw.conv, cw.budget),
                      !.built = "chatService"]
  /\ UNCHANGED <<store, ls, nextId, now, ui, turn, prompt, summarizerCalls, turns, ops, aux>>

BuildContextMM ==
  /\ cw.built = "no"
  /\ cw' = [cw EXCEPT !.out = prepareConversationContextMM(cw.conv),
                      !.budget = MAX_CONTEXT_WINDOW,
                      !.built = "memoryManager"]
  /\ UNCHANGED <<store, ls, nextId, now, ui, turn, prompt, summarizerCalls, turns, ops, aux>>

\* The messages an edit is tried on: the first and the last of the active
\* conversation.
EditTargets ==
  IF ui.active \in DOMAIN store /\ store[ui.active].messages # <<>>
  THEN {store[ui.active].messages[1].id, Last(store[ui.active].messages).id}
  ELSE {}

\* ------------------------------------------- overlapping service calls
\* conversationService called by callers that do not wait for each other: a
\* call is cut at its awaits, and the steps of different calls interleave.
\* readAt and wroteAt number the store accesses of the calls in their order.
CallSteps == {svc[c].readAt : c \in 1..MaxCalls} \cup {svc[c].wroteAt : c \in 1..MaxCalls}

StepNo == 1 + CHOOSE n \in CallSteps : \A m \in CallSteps : m <= n

CallFrame == UNCHANGED <<now, ui, turn, prompt, summarizerCalls, turns, ops, cw, fn, page, boot>>

\* createConversation(initialMessage) is called: it runs to its first await.
CallCreate(c, content) ==
  /\ svc[c].pc = "none"
  /\ Cardinality(DOMAIN store) < MaxConvs + MaxCalls - 1
  /\ svc' = [svc EXCEPT ![c] = [NoCall EXCEPT !.op = "create", !.pc = "enter",
                                              !.message = Message(nextId, "user", content)]]
  /\ nextId' = nextId + 1
  /\ UNCHANGED <<store, ls>>
  /\ CallFrame

\* The record a call is about to add, with the marker and the id it leaves in
\* localStorage.
CreateBegin(c) ==
  /\ ls' = [processing |-> TRUE, lastConvId |-> nextId]
  /\ svc' = [svc EXCEPT ![c].pc = "add", ![c].newId = nextId,
                        ![c].conv = NewConversation(nextId, svc[c].message, now)]
  /\ nextId' = nextId + 1

\* After ensureInitialized: the marker and the last id are read; with both set
\* the call looks the conversation up, otherwise it sets them and creates.
CreateEnter(c) ==
  /\ svc[c].pc = "enter"
  /\ IF ls.processing /\ ls.lastConvId # 0
     THEN /\ svc' = [svc EXCEPT ![c].pc = "lookup", ![c].existingId = ls.lastConvId]
          /\ UNCHANGED <<ls, nextId>>
     ELSE CreateBegin(c)
  /\ UNCHANGED store
  /\ CallFrame

\* getConversation(existingId) has answered: the record is returned, or the
\* marker is cleared and the call creates.
CreateLookup(c) ==
  /\ svc[c].pc = "lookup"
  /\ IF svc[c].existingId \in DOMAIN store
     THEN /\ svc' = [svc EXCEPT ![c].pc = "done", ![c].conv = store[svc[c].existingId]]
          /\ UNCHANGED <<ls, nextId>>
     ELSE CreateBegin(c)
  /\ UNCHANGED store
  /\ CallFrame

\* indexedDBService.addConversation: store.add of the new record.
CreateAdd(c) ==
  /\ svc[c].pc = "add"
  /\ store' = Put(store, svc[c].conv)
  /\ svc' = [svc EXCEPT ![c].pc = "verify", ![c].wroteAt = StepNo]
  /\ UNCHANGED <<ls, nextId>>
  /\ CallFrame

\* The verifying read, then the marker is removed and the record returned.
CreateFinish(c) ==
  /\ svc[c].pc = "verify"
  /\ ls' = [ls EXCEPT !.processing = FALSE]
  /\ svc' = [svc EXCEPT ![c].pc = "done"]
  /\ UNCHANGED <<store, nextId>>
  /\ CallFrame

\* addMessageToConversation(conversationId, message) is called.
CallAddMessage(c, conversationId, content) ==
  /\ svc[c].pc = "none"
  /\ svc' = [svc EXCEPT ![c] = [NoCall EXCEPT !.op = "addMessage", !.pc = "read",
                                              !.convId = conversationId,
                                              !.retries = maxRetries,
                                              !.limit = maxRetries,
                                              !.message = Message(nextId, "user", content)]]
  /\ nextId' = nextId + 1
  /\ UNCHANGED <<store, ls>>
  /\ CallFrame

\* AddMessageRead with one retry more than asked for.
AddMessageReadOneMore(c) ==
  /\ svc[c].pc = "read"
  /\ IF svc[c].convId \in DOMAIN store
     THEN svc' = [svc EXCEPT ![c].pc = "write", ![c].readAt = StepNo,
                             ![c].reads = @ + 1,
                             ![c].conv = [store[svc[c].convId] EXCEPT
                                            !.messages = Append(@, svc[c].message),
                                            !.lastModified = now]]
     ELSE IF svc[c].retries >= 0
     THEN svc' = [svc EXCEPT ![c].retries = @ - 1, ![c].reads = @ + 1]
     ELSE svc' = [svc EXCEPT ![c].pc = "done", ![c].reads = @ + 1]
  /\ UNCHANGED <<store, ls, nextId>>
  /\ CallFrame

\* indexedDBService.getConversation has answered with a copy of the record:
\* the message is pushed on the copy; an absent record is retried, and null is
\* returned when no retry is left.
AddMessageRead(c) ==
  /\ svc[c].pc = "read"
  /\ IF svc[c].convId \in DOMAIN store
     THEN svc' = [svc EXCEPT ![c].pc = "write", ![c].readAt = StepNo,
                             ![c].reads = @ + 1,
                             ![c].conv = [store[svc[c].convId] EXCEPT
                                            !.messages = Append(@, svc[c].message),
                                            !.lastModified = now]]
     ELSE IF svc[c].retries > 0
     THEN svc' = [svc EXCEPT ![c].retries = @ - 1, ![c].reads = @ + 1]
     ELSE svc' = [svc EXCEPT ![c].pc = "done", ![c].reads = @ + 1]
  /\ UNCHANGED <<store, ls, nextId>>
  /\ CallFrame

AddMessageWriteMerged(c) ==
  /\ svc[c].pc = "write"
  /\ store' = addMessageToConversation(
                 IF svc[c].convId \in DOMAIN store THEN store ELSE Put(store, svc[c].conv),
                 svc[c].convId, svc[c].message, NoOpts, now)
  /\ svc' = [svc EXCEPT ![c].pc = "done", ![c].wroteAt = StepNo]
  /\ UNCHANGED <<ls, nextId>>
  /\ CallFrame

\* indexedDBService.updateConversation: store.put of the call's copy.
AddMessageWrite(c) ==
  /\ svc[c].pc = "write"
  /\ store' = Put(store, svc[c].conv)
  /\ svc' = [svc EXCEPT ![c].pc = "done", ![c].wroteAt = StepNo]
  /\ UNCHANGED <<ls, nextId>>
  /\ CallFrame

\* waitForConversation(conversationId, maxRetries) is called.
CallWait(c, conversationId, retries) ==
  /\ svc[c].pc = "none"
  /\ svc' = [svc EXCEPT ![c] = [NoCall EXCEPT !.op = "wait", !.pc = "wait",
                                              !.convId = conversationId,
                                              !.limit = retries]]
  /\ UNCHANGED <<store, ls, nextId>>
  /\ CallFrame

\* One round of the loop of waitForConversation: with no attempt left null is
\* returned; otherwise getConversation answers, and a record is returned at
\* once while an absent one is waited for.
WaitRead(c) ==
  /\ svc[c].pc = "wait"
  /\ IF svc[c].reads >= svc[c].limit
     THEN svc' = [svc EXCEPT ![c].pc = "done"]
     ELSE IF svc[c].convId \in DOMAIN store
     THEN svc' = [svc EXCEPT ![c].pc = "done", ![c].reads = @ + 1, ![c].readAt = StepNo,
                             ![c].conv = store[svc[c].convId]]
     ELSE svc' = [svc EXCEPT ![c].reads = @ + 1]
  /\ UNCHANGED <<store, ls, nextId>>
  /\ CallFrame

\* The conversations a call is made for: the stored ones, the one whose id a
\* creation has left in localStorage, and one that no record has.
CallTargets == DOMAIN store \cup ({ls.lastConvId} \ {0}) \cup {MissingId}

InitCalls ==
  /\ Init
  /\ ~ls.processing

\* ------------------------------------------------- the spacing of sends
\* The send handler of the chat page in time: ChatContext.sendMessage behind
\* ChatInput, or handleSendMessage of the earlier ChatPage.  Each attempt is
\* logged with its time, the time of the accepted send before it, and what the
\* handler did.
PageFrame ==
  UNCHANGED <<store, ls, nextId, now, ui, turn, prompt, summarizerCalls, turns, ops, cw, fn, svc, boot>>

LastAccepted(log) ==
  LET accepted == SelectSeq(log, LAMBDA e : e.outcome = "accepted")
  IN IF accepted = <<>> THEN 0 - MIN_MESSAGE_INTERVAL ELSE Last(accepted).at

Attempt(outcome) ==
  [at |-> page.clock, previous |-> LastAccepted(page.log), outcome |-> outcome]

\* Time passes, half the interval at a time.
Tick ==
  /\ page.clock < MIN_MESSAGE_INTERVAL + MaxTicks * (MIN_MESSAGE_INTERVAL \div 2)
  /\ page' = [page EXCEPT !.clock = @ + MIN_MESSAGE_INTERVAL \div 2]
  /\ PageFrame

\* sendMessage of ChatContext, to setIsProcessing(true): it returns at once
\* while a turn is in flight and accepts the send otherwise.
sendMessageGuard ==
  /\ page.handler = "sendMessage"
  /\ Len(page.log) < MaxSends
  /\ ~page.isProcessing
  /\ page' = [page EXCEPT !.isProcessing = TRUE,
                          !.log = Append(@, Attempt("accepted"))]
  /\ PageFrame

\* handleSendMessage of the earlier ChatPage, to setIsProcessing(true): it
\* returns at once while a turn is in flight, and a CodeReview command is taken
\* before the rate limiting check.
handleSendMessage(isReview) ==
  /\ page.handler = "handleSendMessage"
  /\ Len(page.log) < MaxSends
  /\ ~page.isProcessing
  /\ page' = IF isReview
             THEN [page EXCEPT !.isProcessing = TRUE,
                               !.log = Append(@, Attempt("accepted"))]
             ELSE IF page.clock - page.lastMessageTime < MIN_MESSAGE_INTERVAL
             THEN [page EXCEPT !.log = Append(@, Attempt("notice"))]
             ELSE [page EXCEPT !.isProcessing = TRUE,
                               !.lastMessageTime = page.clock,
                               !.log = Append(@, Attempt("accepted"))]
  /\ PageFrame

\* finally: setIsProcessing(false), at the end of the accepted send.
SendSettled ==
  /\ page.isProcessing
  /\ page' = [page EXCEPT !.isProcessing = FALSE]
  /\ PageFrame

InitPage ==
  /\ InitCommon
  /\ store = <<>>
  /\ ui = NoUi
  /\ ls = [processing |-> FALSE, lastConvId |-> 0]
  /\ nextId = 1
  /\ cw = NoCw
  /\ fn = NoFn
  /\ svc = [c \in 1..MaxCalls |-> NoCall]
  /\ page \in {[NoPage EXCEPT !.handler = h] : h \in {"sendMessage", "handleSendMessage"}}
  /\ boot = ReadyBoot

\* ------------------------------------------ the initialisation of the service
\* indexedDBService.init() is called: a new promise, pending, becomes
\* initPromise.
StartInit(b) ==
  [b EXCEPT !.started = @ + 1,
            !.outcome = Append(@, "pending"),
            !.initPromise = Len(b.outcome) + 1]

BootFrame ==
  UNCHANGED <<store, ls, nextId, now, ui, turn, prompt, summarizerCalls, turns, ops, cw, fn, page>>

\* initializeService() called by caller c: resolved at once when initialised,
\* the promise in flight when there is one, a new initialisation otherwise.
initializeService(c) ==
  /\ svc[c].pc = "none"
  /\ IF boot.isInitialized
     THEN /\ svc' = [svc EXCEPT ![c] = [NoCall EXCEPT !.op = "initialize", !.pc = "done"]]
          /\ boot' = boot
     ELSE IF boot.initPromise # 0
     THEN /\ svc' = [svc EXCEPT ![c] = [NoCall EXCEPT !.op = "initialize", !.pc = "await",
                                                      !.awaits = boot.initPromise]]
          /\ boot' = boot
     ELSE /\ boot.started < MaxInits
          /\ boot' = StartInit(boot)
          /\ svc' = [svc EXCEPT ![c] = [NoCall EXCEPT !.op = "initialize", !.pc = "await",
                                                      !.awaits = Len(boot.outcome) + 1]]
  /\ BootFrame

\* An operation of the service called by caller c, up to the await of its
\* ensureInitialized().
ensureInitialized(c) ==
  /\ svc[c].pc = "none"
  /\ IF ~boot.isInitialized /\ boot.initPromise = 0
     THEN /\ boot.started < MaxInits
          /\ boot' = StartInit(boot)
          /\ svc' = [svc EXCEPT ![c] = [NoCall EXCEPT !.op = "operation", !.pc = "await",
                                                      !.awaits = Len(boot.outcome) + 1]]
     ELSE IF boot.initPromise # 0
     THEN /\ svc' = [svc EXCEPT ![c] = [NoCall EXCEPT !.op = "operation", !.pc = "await",
                                                      !.awaits = boot.initPromise]]
          /\ boot' = boot
     ELSE /\ svc' = [svc EXCEPT ![c] = [NoCall EXCEPT !.op = "operation", !.pc = "began"]]
          /\ boot' = boot
  /\ BootFrame

\* SettleInit that leaves the rejected promise in initPromise.
SettleInitKeep(ok) ==
  /\ boot.outcome # <<>>
  /\ Last(boot.outcome) = "pending"
  /\ boot' = IF ok
             THEN [boot EXCEPT !.outcome[Len(boot.outcome)] = "fulfilled",
                               !.isInitialized = TRUE]
             ELSE [boot EXCEPT !.outcome[Len(boot.outcome)] = "rejected"]
  /\ UNCHANGED svc
  /\ BootFrame

\* init() settles: then() sets isInitialized, catch() clears initPromise and
\* rejects the promise the callers hold.
SettleInit(ok) ==
  /\ boot.outcome # <<>>
  /\ Last(boot.outcome) = "pending"
  /\ boot' = IF ok
             THEN [boot EXCEPT !.outcome[Len(boot.outcome)] = "fulfilled",
                               !.isInitialized = TRUE]
             ELSE [boot EXCEPT !.outcome[Len(boot.outcome)] = "rejected",
                               !.initPromise = 0]
  /\ UNCHANGED svc
  /\ BootFrame

\* The promise caller c awaits has settled: the operation begins, or the
\* call throws.
ResumeCaller(c) ==
  /\ svc[c].pc = "await"
  /\ svc[c].op \in {"initialize", "operation"}
  /\ boot.outcome[svc[c].awaits] # "pending"
  /\ svc' = [svc EXCEPT ![c].pc =
              IF boot.outcome[svc[c].awaits] = "rejected" THEN "failed"
              ELSE IF svc[c].op = "operation" THEN "began" ELSE "done"]
  /\ UNCHANGED boot
  /\ BootFrame

\* The caller is free for its next call.
ReturnCaller(c) ==
  /\ svc[c].op \in {"initialize", "operation"}
  /\ svc[c].pc \in {"began", "done", "failed"}
  /\ svc' = [svc EXCEPT ![c] = NoCall]
  /\ UNCHANGED boot
  /\ BootFrame

InitBoot ==
  /\ InitCommon
  /\ store = <<>>
  /\ ui = NoUi
  /\ ls = [processing |-> FALSE, lastConvId |-> 0]
  /\ nextId = 1
  /\ cw = NoCw
  /\ fn = NoFn
  /\ svc = [c \in 1..MaxCalls |-> NoCall]
  /\ page = NoPage
  /\ boot = NoBoot

\* ------------------------------------------- the shapes of a model response
\* JSON.stringify of a value holding the text: the characters of the text
\* inside the punctuation of the encoding ("<", ">" and "/" are not escaped).
JsonStringify(text) == <<"{">> \o text \o <<"}">>

\* The callback of contentArray.map, on a part of type "string" or "object"
\* (text: its text property, empty when absent; rest: its other properties):
\* a string or a part with a text is cleaned, any other part is stringified as
\* it is.
CleanPart(part) ==
  IF part.type = "string" THEN CleanResponse(part.text)
  ELSE IF part.text # <<>> THEN CleanResponse(part.text)
  ELSE JsonStringify(part.text \o part.rest)

\* responseText of processMessageWithLangChain, from response.content.
ResponseText(content) ==
  LET RECURSIVE JoinParts(_)
      JoinParts(parts) ==
        IF parts = <<>> THEN <<>>
        ELSE CleanPart(Head(parts)) \o JoinParts(Tail(parts))
  IN CASE content.shape = "string" -> CleanResponse(content.text)
       [] content.shape = "array" -> Trim(JoinParts(content.parts))
       [] OTHER -> CleanResponse(JsonStringify(content.text))

SeqsUpTo(S, n) == UNION {[1..k -> S] : k \in 0..n}

\* The contents a response is tried with: texts over the four tags and a word,
\* arrays of string parts, parts with a text and parts without.
ResponseContents ==
  LET ResponseTexts == SeqsUpTo({ThinkOpen, ThinkClose, CtxOpen, CtxClose, "x"}, MaxTextLen)
      PartTexts == SeqsUpTo({ThinkOpen, ThinkClose, "x"}, MaxPartLen)
      Parts ==
        {[type |-> "string", text |-> t, rest |-> <<>>] : t \in PartTexts}
          \cup {[type |-> "object", text |-> t, rest |-> <<>>] : t \in PartTexts \ {<<>>}}
          \cup {[type |-> "object", text |-> <<>>, rest |-> t] : t \in PartTexts}
  IN {[shape |-> "string", text |-> t, parts |-> <<>>] : t \in ResponseTexts}
       \cup {[shape |-> "array", text |-> <<>>, parts |-> ps] : ps \in SeqsUpTo(Parts, MaxParts)}
       \cup {[shape |-> "object", text |-> t, parts |-> <<>>] : t \in ResponseTexts}

\* The conversations the extractor is tried on: messages without artifact,
\* with an SVG and with a code block, and generatedContent absent or holding
\* the SVGs the turns have recorded for these messages.
ExtractInputs ==
  LET KindContent(kind) ==
        CASE kind = "svg" -> SvgReply
          [] kind = "code" -> <<Fence, "c", Fence>>
          [] OTHER -> <<"Hello">>
      Conv(kinds, recorded) ==
        LET messages == [i \in 1..Len(kinds) |->
                           Message(i, IF kinds[i] = "text" THEN "user" ELSE "assistant",
                                   KindContent(kinds[i]))]
        IN [EmptyConversation(1, 1) EXCEPT
              !.messages = messages,
              !.gc = IF recorded
                     THEN [def |-> TRUE, svg |-> FlatMap(MessageSvgs, messages), code |-> <<>>]
                     ELSE NoGC]
  IN {Conv(kinds, recorded) :
        kinds \in UNION {[1..k -> {"text", "svg", "code"}] : k \in 1..MaxCtxMsgs},
        recorded \in BOOLEAN}

\* extractSpecialContent(conversation, conversation.messages) called twice by
\* a caller holding the conversation: the two results and the caller's
\* conversation after the first call.
RunExtractor ==
  /\ fn.kind = "extract" /\ ~fn.done
  /\ LET conversation == fn.input
         after == AfterExtract(conversation, conversation.messages)
     IN fn' = [fn EXCEPT
                 !.out = [first |-> extractSpecialContent(conversation, conversation.messages),
                          after |-> after,
                          second |-> extractSpecialContent(after, after.messages)],
                 !.done = TRUE]
  /\ UNCHANGED <<store, ls, nextId, now, ui, turn, prompt, summarizerCalls, turns, ops, cw, svc, page, boot>>

\* The model has answered with fn.input: the reply text is computed.
NormalizeResponse ==
  /\ fn.kind = "response" /\ ~fn.done
  /\ fn' = [fn EXCEPT !.out = ResponseText(fn.input), !.done = TRUE]
  /\ UNCHANGED <<store, ls, nextId, now, ui, turn, prompt, summarizerCalls, turns, ops, cw, svc, page, boot>>

\* ------------------------------------------------- the file access gateway
\* A path is a string, held as the sequence of its characters.
StartsWith(s, prefix) ==
  /\ Len(prefix) <= Len(s)
  /\ SubSeq(s, 1, Len(prefix)) = prefix

\* The names between the separators of a path, empty names included.
Segments(path) ==
  LET RECURSIVE Split(_, _)
      Split(rest, name) ==
        IF rest = <<>> THEN <<name>>
        ELSE IF Head(rest) = "/" THEN <<name>> \o Split(Tail(rest), <<>>)
        ELSE Split(Tail(rest), Append(name, Head(rest)))
  IN Split(path, <<>>)

\* The names of a path with "", "." and ".." resolved; ".." at the root of an
\* absolute path is dropped, a leading ".." of a relative path is kept.
Resolve(names, absolute) ==
  LET RECURSIVE Walk(_, _)
      Walk(rest, acc) ==
        IF rest = <<>> THEN acc
        ELSE LET name == Head(rest)
             IN IF name = <<>> \/ name = <<".">> THEN Walk(Tail(rest), acc)
                ELSE IF name # <<".", ".">> THEN Walk(Tail(rest), Append(acc, name))
                ELSE IF acc # <<>> /\ acc[Len(acc)] # <<".", ".">>
                     THEN Walk(Tail(rest), SubSeq(acc, 1, Len(acc) - 1))
                ELSE IF absolute THEN Walk(Tail(rest), acc)
                ELSE Walk(Tail(rest), Append(acc, name))
  IN Walk(names, <<>>)

\* Names joined by the separator.
JoinNames(names) ==
  LET RECURSIVE Join(_)
      Join(rest) ==
        IF rest = <<>> THEN <<>>
        ELSE IF Len(rest) = 1 THEN Head(rest)
        ELSE Head(rest) \o <<"/">> \o Join(Tail(rest))
  IN Join(names)

\* pathUtils.normalize of the renderer: backslashes become separators and
\* runs of separators become one.  "." and ".." stay.
pathUtilsNormalize(path) ==
  LET slashed == [i \in 1..Len(path) |-> IF path[i] = "\\" THEN "/" ELSE path[i]]
      RECURSIVE Squeeze(_)
      Squeeze(rest) ==
        IF Len(rest) < 2 THEN rest
        ELSE IF rest[1] = "/" /\ rest[2] = "/" THEN Squeeze(Tail(rest))
        ELSE <<rest[1]>> \o Squeeze(Tail(rest))
  IN Squeeze(slashed)

\* path.normalize of the main process (POSIX): the names are resolved, a
\* trailing separator is kept.
pathNormalize(path) ==
  IF path = <<>> THEN <<".">>
  ELSE LET absolute == path[1] = "/"
           trailing == path[Len(path)] = "/"
           joined == JoinNames(Resolve(Segments(path), absolute))
           body == IF joined = <<>> /\ ~absolute THEN <<".">> ELSE joined
           tailed == IF body # <<>> /\ trailing THEN body \o <<"/">> ELSE body
       IN IF absolute THEN <<"/">> \o tailed ELSE tailed

\* isPathAllowed of the renderer's file system service.
isPathAllowed(filePath, allowedDirectories) ==
  \E i \in DOMAIN allowedDirectories :
    StartsWith(pathUtilsNormalize(filePath), pathUtilsNormalize(allowedDirectories[i]))

\* isPathAllowed of the main process.
fsIsPathAllowed(checkPath, allowedDirectories) ==
  \E i \in DOMAIN allowedDirectories :
    StartsWith(pathNormalize(checkPath), pathNormalize(allowedDirectories[i]))

\* A path is inside a directory when it is the directory or a descendant of
\* it: the resolved names of the directory begin the resolved names of the
\* path.
InsideDirectory(path, dir) ==
  LET p == Resolve(Segments(path), TRUE)
      d == Resolve(Segments(dir), TRUE)
  IN /\ Len(d) <= Len(p)
     /\ SubSeq(p, 1, Len(d)) = d

InsideAllowed(path, allowedDirectories) ==
  \E i \in DOMAIN allowedDirectories : InsideDirectory(path, allowedDirectories[i])

\* The absolute path of a sequence of names.
AbsolutePath(names) ==
  LET RECURSIVE Build(_)
      Build(rest) ==
        IF rest = <<>> THEN <<>> ELSE <<"/">> \o Head(rest) \o Build(Tail(rest))
  IN Build(names)

PathNames == {<<"a">>, <<"a", "b">>, <<".", ".">>}
DirectoryNames == {<<"a">>, <<"a", "b">>}

\* The requests: an operation, the path asked for and the allow-list, which
\* is empty or holds one directory picked in the dialog.
FileRequests ==
  {[op |-> op, path |-> AbsolutePath(names), allowedDirectories |-> dirs] :
     op \in {"readFile", "listDirectory"},
     names \in SeqsUpTo(PathNames, MaxSegs) \ {<<>>},
     dirs \in {<<>>} \cup {<<AbsolutePath(d)>> : d \in SeqsUpTo(DirectoryNames, MaxSegs) \ {<<>>}}}

\* A request through the renderer's service and, when that lets it pass, the
\* handler of the main process, which reads the file system at the path as
\* it was given.
FileAccess(op, denied) ==
  /\ fn.kind = "path" /\ ~fn.done
  /\ fn.input.op = op
  /\ LET filePath == fn.input.path
         allowed == /\ isPathAllowed(filePath, fn.input.allowedDirectories)
                    /\ fsIsPathAllowed(filePath, fn.input.allowedDirectories)
     IN fn' = [fn EXCEPT
                 !.out = [error |-> IF allowed THEN "none" ELSE denied,
                          accessed |-> IF allowed THEN <<filePath>> ELSE <<>>],
                 !.done = TRUE]
  /\ UNCHANGED <<store, ls, nextId, now, ui, turn, prompt, summarizerCalls, turns, ops, cw, svc, page, boot>>

\* The errors of a refused request.
AccessDenied ==
  {"Access denied: File is outside allowed directories",
   "Access denied: Directory is outside allowed directories"}

readFile == FileAccess("readFile", "Access denied: File is outside allowed directories")

listDirectory ==
  FileAccess("listDirectory", "Access denied: Directory is outside allowed directories")

FnInputs ==
  {[NoFn EXCEPT !.kind = "response", !.input = c] : c \in ResponseContents}
    \cup {[NoFn EXCEPT !.kind = "model", !.input = in] : in \in ModelInputs}
    \cup {[NoFn EXCEPT !.kind = "extract", !.input = c] : c \in ExtractInputs}
    \cup {[NoFn EXCEPT !.kind = "path", !.input = r] : r \in FileRequests}

InitFn ==
  /\ InitCommon
  /\ store = <<>>
  /\ ui = NoUi
  /\ ls = [processing |-> FALSE, lastConvId |-> 0]
  /\ nextId = 1
  /\ cw = NoCw
  /\ svc = [c \in 1..MaxCalls |-> NoCall]
  /\ page = NoPage
  /\ boot = ReadyBoot
  /\ fn \in FnInputs

\* ---------------------------------------------------------- specifications
\* The application: the turn of sendMessage and the other handlers of
\* ChatProvider.
Next ==
  \/ SendMessage
  \/ \E id \in DOMAIN store : selectConversation(id)
  \/ newConversation
  \/ \E id \in DOMAIN store : deleteConversation(id)
  \/ \E messageId \in EditTargets, newContent \in EditTexts :
       editMessage(messageId, newContent)
  \/ \E id \in DOMAIN store : \E options \in ForkOptions(store[id].messages) :
       id = ui.active /\ forkConversationUI(options)

Spec == Init /\ [][Next]_vars

\* The two forks, on the stores the turns leave and pass through.
NextFork ==
  \/ SendStart(<<"Hello">>)
  \/ SendSteps
  \/ \E id \in DOMAIN store : \E options \in ForkOptions(store[id].messages) :
       id = ui.active /\ forkConversationUI(options)
  \/ \E id \in DOMAIN store : \E options \in ForkOptions(store[id].messages) :
       forkConversation(id, options)

SpecFork == Init /\ [][NextFork]_vars

\* The application together with the operations conversationService and the
\* memory manager export.
NextService ==
  \/ Next
  \/ \E id \in DOMAIN store : \E options \in ForkOptions(store[id].messages) :
       forkConversation(id, options)
  \/ \E id \in DOMAIN store, summary \in Summaries : UpdateConversationSummary(id, summary)
  \/ \E id \in DOMAIN store, content \in Replies :
       \E selectedModel \in SummaryModels, gateway \in GatewayOutcomes :
         UpdateConversationWithContent(id, content, selectedModel, gateway)

SpecService == Init /\ [][NextService]_vars

\* The context window builders applied to one conversation.
NextCtx == BuildContext \/ BuildContextMM

SpecCtx == InitCtx /\ [][NextCtx]_vars

\* Turns of sendMessage alone, no other handler beside them.
NextTurn ==
  \/ SendMessage

SpecTurn == Init /\ [][NextTurn]_vars

\* Turns beside deletions, every awaited call of a turn returning or
\* throwing in the end.
NextLive ==
  \/ SendMessage
  \/ \E id \in DOMAIN store : deleteConversation(id)

SpecLive == Init /\ [][NextLive]_vars /\ WF_vars(SendSteps)

\* The memory manager's update beside a turn.
NextSummary ==
  \/ SendStart(<<"Hello">>)
  \/ SendSteps
  \/ \E id \in DOMAIN store, content \in Replies :
       \E selectedModel \in SummaryModels, gateway \in GatewayOutcomes :
         UpdateConversationWithContent(id, content, selectedModel, gateway)

SpecSummary == Init /\ [][NextSummary]_vars

\* Service calls that overlap.
NextCalls ==
  \/ \E c \in 1..MaxCalls, content \in UserTexts : CallCreate(c, content)
  \/ \E c \in 1..MaxCalls : CreateEnter(c)
  \/ \E c \in 1..MaxCalls : CreateLookup(c)
  \/ \E c \in 1..MaxCalls : CreateAdd(c)
  \/ \E c \in 1..MaxCalls : CreateFinish(c)
  \/ \E c \in 1..MaxCalls, id \in DOMAIN store, content \in UserTexts :
       CallAddMessage(c, id, content)
  \/ \E c \in 1..MaxCalls : AddMessageRead(c)
  \/ \E c \in 1..MaxCalls : AddMessageWrite(c)

SpecCalls == InitCalls /\ [][NextCalls]_vars

\* Calls that wait for a record beside a creation.
NextRetry ==
  \/ \E c \in 1..MaxCalls : CallCreate(c, <<"Hello">>)
  \/ \E c \in 1..MaxCalls : CreateEnter(c)
  \/ \E c \in 1..MaxCalls : CreateLookup(c)
  \/ \E c \in 1..MaxCalls : CreateAdd(c)
  \/ \E c \in 1..MaxCalls : CreateFinish(c)
  \/ \E c \in 1..MaxCalls, id \in CallTargets : CallAddMessage(c, id, <<"Hello">>)
  \/ \E c \in 1..MaxCalls : AddMessageRead(c)
  \/ \E c \in 1..MaxCalls : AddMessageWrite(c)
  \/ \E c \in 1..MaxCalls, id \in CallTargets, retries \in 0..MaxWaitRetries :
       CallWait(c, id, retries)
  \/ \E c \in 1..MaxCalls : WaitRead(c)

SpecRetry == InitCalls /\ [][NextRetry]_vars

\* Callers of the service from its first use on.
NextBoot ==
  \/ \E c \in 1..MaxCalls : initializeService(c)
  \/ \E c \in 1..MaxCalls : ensureInitialized(c)
  \/ \E ok \in BOOLEAN : SettleInit(ok)
  \/ \E c \in 1..MaxCalls : ResumeCaller(c)
  \/ \E c \in 1..MaxCalls : ReturnCaller(c)

SpecBoot == InitBoot /\ [][NextBoot]_vars

\* The sends of a chat page in time.
NextPage ==
  \/ Tick
  \/ sendMessageGuard
  \/ \E isReview \in BOOLEAN : handleSendMessage(isReview)
  \/ SendSettled

SpecPage == InitPage /\ [][NextPage]_vars

\* The functions of the services, each applied to one input.
NextFn ==
  \/ NormalizeResponse
  \/ ResolveModel
  \/ RunExtractor
  \/ readFile
  \/ listDirectory

SpecFn == InitFn /\ [][NextFn]_vars

\* ------------------------------------------------------------- properties
\* C1: once the stored summary of a conversation is set, no step changes it
\* or unsets it, and a step that calls the Summarizer writes a summary only
\* over an unset one.
C1_SummaryStable ==
  [][\A id \in DOMAIN store \cap DOMAIN store' :
       /\ store[id].summary # Unset => store'[id].summary = store[id].summary
       /\ (summarizerCalls' # summarizerCalls /\ store'[id].summary # store[id].summary)
            => store[id].summary = Unset]_vars

\* C2: a completed turn on a conversation that had at least SUMMARY_THRESHOLD
\* messages and no summary made exactly one Summarizer call and left a
\* summary in the store; a completed turn on a conversation that already had
\* a summary made no Summarizer call.
C2_SummarizedAtThreshold ==
  (turn.pc = "idle" /\ turn.outcome = "ok" /\ turn.convId \in DOMAIN store) =>
    /\ turn.longNoSummary =>
         /\ summarizerCalls = turn.callsAtStart + 1
         /\ Truthy(store[turn.convId].summary)
    /\ turn.hadSummary => summarizerCalls = turn.callsAtStart

\* C3: after sendMessage("Hello") with no active conversation and a reply of
\* the model, and nothing else done, the new conversation holds exactly the
\* user message "Hello" and the assistant message with the reply; createdAt
\* is the time of creation and lastModified is not earlier.
C3_HelloTurn ==
  (/\ turn.pc = "idle" /\ turn.outcome = "ok" /\ turn.wasNew
   /\ turn.msg = <<"Hello">> /\ ops = 0 /\ turn.convId \in DOMAIN store) =>
    LET conversation == store[turn.convId]
    IN /\ Len(conversation.messages) = 2
       /\ conversation.messages[1].role = "user"
       /\ conversation.messages[1].content = <<"Hello">>
       /\ conversation.messages[2].role = "assistant"
       /\ conversation.messages[2].content = turn.response
       /\ conversation.createdAt = turn.conv.createdAt
       /\ conversation.lastModified >= conversation.createdAt

\* The stored conversation ends with the user message of the turn followed
\* by one assistant message with the fixed error text.
EndsWithError(messages, userMessage) ==
  /\ Len(messages) >= 2
  /\ messages[Len(messages) - 1].id = userMessage.id
  /\ messages[Len(messages) - 1].role = "user"
  /\ Last(messages).role = "assistant"
  /\ Last(messages).content = ErrorText

C5_AppendOnly ==
  [][\A id \in DOMAIN store \cap DOMAIN store' :
       LET old == store[id].messages
           new == store'[id].messages
       IN /\ Len(new) >= Len(old)
          /\ \A i \in 1..Len(old) :
               /\ new[i].id = old[i].id
               /\ new[i].role = old[i].role
               /\ (ops' = ops => new[i].content = old[i].content)]_vars

RECURSIVE SumTokens(_)
SumTokens(messages) ==
  IF messages = <<>> THEN 0
  ELSE estimateTokenCount(Head(messages).content) + SumTokens(Tail(messages))

\* The id of the svg_context system message the builder always includes.
LatestSvgContextId(conversation) ==
  LET svgSystemMessages == SelectSeqBy(IsSvgContext, conversation.messages)
  IN IF svgSystemMessages = <<>> THEN MissingId ELSE Last(svgSystemMessages).id

\* The messages of the output that are stored messages of the conversation,
\* and those of them that are not the always-included one.
StoredPart(out) ==
  LET IsStored(msg) == msg.ref # "summary"
  IN SelectSeqBy(IsStored, out)

BudgetedPart(out, conversation) ==
  LET IsBudgeted(msg) == msg.id # LatestSvgContextId(conversation)
  IN SelectSeqBy(IsBudgeted, StoredPart(out))

\* The messages appear in the order they have in the conversation.
InConversationOrder(part, conversation) ==
  \A i, j \in 1..Len(part) :
    i < j => findIndex(conversation.messages, part[i].id)
               < findIndex(conversation.messages, part[j].id)

\* C6: for a conversation without a summary, the estimated tokens of the
\* messages a builder returns, the always-included artifact-context message
\* not counted, are at most the budget.
C6_BudgetRespected ==
  (cw.built # "no" /\ ~Truthy(cw.conv.summary)) =>
    SumTokens(BudgetedPart(cw.out, cw.conv)) <= cw.budget

IsForkStep(id, options) ==
  \/ id = ui.active /\ forkConversationUI(options)
  \/ forkConversation(id, options)

\* C8: a fork, with any options, adds one record under a new id and leaves
\* every record the store held as it was.  (Of the steps of SpecFork, the two
\* forks are those that count as operations.)
C8_ForkFrame ==
  [][ops' # ops =>
       /\ nextId \notin DOMAIN store
       /\ DOMAIN store' = DOMAIN store \cup {nextId}
       /\ \A other \in DOMAIN store : store'[other] = store[other]]_vars

\* The store holds a conversation and a fork of it.
C8_Witness ==
  \E id, forkId \in DOMAIN store :
    /\ id # forkId
    /\ store[forkId].title = ForkTitle(store[id].title)
    /\ store[id].messages # <<>>

\* The message list a fork is to have.
ExpectedFork(messages, options) ==
  LET i == findIndex(messages, options.messageId)
  IN IF options.visibleMessagesOnly /\ options.messageId # 0 /\ i > 0
     THEN IF options.startFromMessage
          THEN SubSeq(messages, i, Len(messages))
          ELSE SubSeq(messages, 1, i)
     ELSE messages

\* C9: the messages of a forked conversation are the source's from the
\* target on (startFromMessage) or up to the target, when visibleMessagesOnly
\* is set and the target is found, and the whole list of the source otherwise.
C9_ForkedMessages ==
  [][ops' # ops =>
       \A id \in DOMAIN store : \A options \in ForkOptions(store[id].messages) :
         IsForkStep(id, options) =>
           store'[nextId].messages = ExpectedFork(store[id].messages, options)]_vars

NoContextBlock(messages) ==
  \A i \in 1..Len(messages) : ~HasContextBlock(messages[i].content)

\* C10: when no turn is in flight, no stored message and no message of the
\* UI list contains a <context>...</context> block.
C10_NoContextBlock ==
  turn.pc = "idle" =>
    /\ \A id \in DOMAIN store : NoContextBlock(store[id].messages)
    /\ NoContextBlock(ui.messages)

HasThinkRegion(text) ==
  LET i == IndexFrom(text, ThinkOpen, 1)
  IN i # 0 /\ IndexFrom(text, ThinkClose, i + 1) # 0

\* C11: whatever the shape of the model response (string, array of parts,
\* object), the reply text has no complete <think>...</think> region and no
\* complete <context>...</context> region.
C11_ReplyCleaned ==
  (fn.kind = "response" /\ fn.done) =>
    ~HasThinkRegion(fn.out) /\ ~HasContextBlock(fn.out)

\* The ids of the messages stored in any conversation.
StoredMessageIds ==
  UNION {{store[c].messages[i].id : i \in 1..Len(store[c].messages)} : c \in DOMAIN store}

NamesModel(id) == id # Unset /\ (FindModel(id) # NoModel \/ IsOllamaId(id))

\* C13: the model of a turn is the one of the pending initial-message payload
\* (which is cleared), otherwise the one with the id passed by the caller,
\* otherwise the persisted choice, otherwise a default; 'No model selected' is
\* not raised while one of them gives a model.
C13_ModelPriority ==
  (fn.kind = "model" /\ fn.done) =>
    LET in == fn.input
        out == fn.out
    IN /\ in.initialMessageData.present =>
            out.selectedModel = in.initialMessageData.model
       /\ ~out.initialMessageData.present
       /\ (~in.initialMessageData.present /\ NamesModel(in.selectedModelId)) =>
            out.selectedModel.id = in.selectedModelId
       /\ (~in.initialMessageData.present /\ ~NamesModel(in.selectedModelId)
             /\ NamesModel(in.savedModelId)) =>
            out.selectedModel.id = in.savedModelId
       /\ ~out.noModelSelected

\* C14: a createConversation call that finds the marker set and the id of
\* another call of the same initial message recorded does not add a record of
\* its own: the two calls leave at most one new record.
C14_OneRecord ==
  \A c, d \in 1..MaxCalls :
    (/\ c # d
     /\ svc[c].op = "create" /\ svc[d].op = "create"
     /\ svc[c].message.content = svc[d].message.content
     /\ svc[d].newId # 0
     /\ svc[c].existingId = svc[d].newId) =>
      ~(svc[c].newId \in DOMAIN store /\ svc[d].newId \in DOMAIN store)

\* Calls c and d append to the same conversation, both have read the record
\* before either has written, both are complete, and d's put is the latest
\* write of all.
OverlappedAppends(c, d) ==
  /\ c # d
  /\ svc[c].op = "addMessage" /\ svc[d].op = "addMessage"
  /\ svc[c].convId = svc[d].convId
  /\ svc[c].pc = "done" /\ svc[d].pc = "done"
  /\ svc[c].readAt # 0 /\ svc[d].readAt # 0
  /\ svc[c].readAt < svc[d].wroteAt /\ svc[d].readAt < svc[c].wroteAt
  /\ svc[c].wroteAt < svc[d].wroteAt
  /\ \A e \in 1..MaxCalls : svc[e].wroteAt <= svc[d].wroteAt

\* C15: after two overlapping appends to one conversation the stored record is
\* the one the later put wrote: it holds the later call's message and not the
\* earlier call's.
C15_LastWriterWins ==
  \A c, d \in 1..MaxCalls :
    OverlappedAppends(c, d) =>
      /\ store[svc[d].convId] = svc[d].conv
      /\ findIndex(store[svc[d].convId].messages, svc[d].message.id) # 0
      /\ findIndex(store[svc[d].convId].messages, svc[c].message.id) = 0

C15_Witness ==
  \E c, d \in 1..MaxCalls :
    /\ OverlappedAppends(c, d)
    /\ store[svc[d].convId] = svc[d].conv
    /\ Len(store[svc[d].convId].messages) > 1

\* C16: a send attempted less than 2000 ms after the accepted send before it
\* is answered with the notice and nothing else, so that accepted sends are at
\* least 2000 ms apart.
C16_RateLimit ==
  \A i \in 1..Len(page.log) :
    LET e == page.log[i]
    IN /\ e.at - e.previous < MIN_MESSAGE_INTERVAL => e.outcome = "notice"
       /\ e.outcome = "accepted" => e.at - e.previous >= MIN_MESSAGE_INTERVAL

\* Number of occurrences of x in seq.
Count(seq, x) == Cardinality({i \in 1..Len(seq) : seq[i] = x})

\* C17: the extractor run twice on a conversation and its messages returns the
\* same svg and code lists, records no artifact a second time, and leaves the
\* caller's conversation and messages as they were.
C17_ExtractIdempotent ==
  (fn.kind = "extract" /\ fn.done) =>
    /\ fn.out.second.gc.svg = fn.out.first.gc.svg
    /\ fn.out.second.gc.code = fn.out.first.gc.code
    /\ \A i \in 1..Len(fn.input.gc.svg) :
         Count(fn.out.first.gc.svg, fn.input.gc.svg[i]) = Count(fn.input.gc.svg, fn.input.gc.svg[i])
    /\ fn.out.after = fn.input

\* C18: the SVG blocks of a recorded reply are appended, in their order, to the
\* stored generatedContent.svg, and when the turn has completed the most recent
\* SVG of the stored conversation is the last of them.
C18_SvgRecorded ==
  /\ [][(turn.pc = "svgContent" /\ turn'.pc = "svgSys" /\ turn.convId \in DOMAIN store) =>
          store'[turn.convId].gc.svg = store[turn.convId].gc.svg \o turn.svgMatches]_vars
  /\ []((turn.pc = "idle" /\ turn.outcome = "ok" /\ turn.svgMatches # <<>>
           /\ ops = 0 /\ turn.convId \in DOMAIN store) =>
          getMostRecentSvg(store[turn.convId]) = Last(turn.svgMatches))

\* C19: a summarization in which no model is resolved or the gateway fails
\* returns the empty string; the assistant message of the call is stored all
\* the same and the stored summary stays as it was, unset.  No stored summary
\* is ever the empty string.
C19_SummarizerFailSoft ==
  /\ [][(/\ summarizerCalls' # summarizerCalls
         /\ fn'.kind = "summary"
         /\ (fn'.input.gateway.failed \/ fn'.input.selectedModel = NoModel)) =>
          LET id == fn'.input.conversationId
          IN /\ fn'.out = ""
             /\ store'[id].messages = Append(store[id].messages, fn'.input.message)
             /\ store'[id].summary = Unset]_vars
  /\ [](\A id \in DOMAIN store : store[id].summary # "")

C19_Witness ==
  /\ fn.kind = "summary"
  /\ fn.input.gateway.failed
  /\ fn.input.selectedModel # NoModel
  /\ fn.out = ""
  /\ fn.input.conversationId \in DOMAIN store
  /\ store[fn.input.conversationId].summary = Unset

\* C20: a readFile or listDirectory request for a path that is in none of the
\* allow-listed directories, neither one of them nor a descendant of one, ends
\* with an access-denied error and no access to the file system.
C20_OutsideDenied ==
  (fn.kind = "path" /\ fn.done
     /\ ~InsideAllowed(fn.input.path, fn.input.allowedDirectories)) =>
    /\ fn.out.error \in AccessDenied
    /\ fn.out.accessed = <<>>

\* C21: a createConversation call that has returned holds a conversation that
\* is in the store and whose messages contain the call's initial message,
\* whatever other createConversation calls ran beside it.
C21_CreateKeepsMessage ==
  \A c \in 1..MaxCalls :
    (svc[c].op = "create" /\ svc[c].pc = "done") =>
      /\ svc[c].conv.id \in DOMAIN store
      /\ findIndex(svc[c].conv.messages, svc[c].message.id) # 0
      /\ findIndex(store[svc[c].conv.id].messages, svc[c].message.id) # 0

\* C22: in every step of a turn the stored generatedContent.svg and
\* generatedContent.code of every conversation that stays in the store only
\* grow: the list before the step begins the list after it.
C22_ArtifactsGrow ==
  [][ops' = ops =>
       \A id \in DOMAIN store \cap DOMAIN store' :
         /\ StartsWith(store'[id].gc.svg, store[id].gc.svg)
         /\ StartsWith(store'[id].gc.code, store[id].gc.code)]_vars

\* A stored conversation holds a user message with the given content.
HoldsUserMessage(conversation, content) ==
  \E i \in 1..Len(conversation.messages) :
    /\ conversation.messages[i].role = "user"
    /\ conversation.messages[i].content = content

C24_UserMessageOnce ==
  turn.pc \in {"pmSave", "fail"} =>
    LET cleanedMessage == removeThinkTags(turn.withCtx)
    IN /\ prompt = PromptMemory(turn.updConv, cleanedMessage)
       /\ Last(prompt) = Human(cleanedMessage)
       /\ findIndex(turn.updConv.messages, turn.userMessage.id) = 0

PositionsOf(list, entry) == {i \in 1..Len(list) : list[i] = entry}

\* C26: when the conversation handed to processMessageWithLangChain has a
\* recorded SVG (code) artifact, the list submitted to the model holds exactly
\* one system message with the last recorded SVG (code), and that message
\* comes before every message of the history.
C26_ArtifactContextFirst ==
  turn.pc \in {"pmSave", "fail"} =>
    LET gc == turn.updConv.gc
        historyAt == {i \in 1..Len(prompt) - 1 : prompt[i].type \in {"human", "ai"}}
        svgAt == PositionsOf(prompt, System(SvgContextText(Last(gc.svg))))
        codeAt == PositionsOf(prompt, System(CodeContextText(Last(gc.code))))
    IN /\ gc.svg # <<>> =>
            /\ Cardinality(svgAt) = 1
            /\ \A i \in svgAt, h \in historyAt : i < h
       /\ gc.code # <<>> =>
            /\ Cardinality(codeAt) = 1
            /\ \A i \in codeAt, h \in historyAt : i < h

\* C27: for a conversation with a summary and more than SUMMARY_THRESHOLD
\* messages a builder returns one system message with the summary followed by
\* the last SUMMARY_THRESHOLD stored messages, as stored and in their order;
\* the artifact-context message that is always included may stand before them.
C27_SummaryThenRecent ==
  (cw.built # "no" /\ Truthy(cw.conv.summary)
     /\ Len(cw.conv.messages) > SUMMARY_THRESHOLD) =>
    LET n == Len(cw.conv.messages)
        expected == <<SummaryMessage(cw.conv.summary)>>
                      \o SubSeq(cw.conv.messages, n - SUMMARY_THRESHOLD + 1, n)
        svgSystemMessages == SelectSeqBy(IsSvgContext, cw.conv.messages)
    IN \/ cw.out = expected
       \/ /\ svgSystemMessages # <<>>
          /\ cw.out = <<Last(svgSystemMessages)>> \o expected

\* C28: the step that delivers the reply to the UI removes the loading
\* placeholder from the message list and appends the assistant message,
\* unless the list without the placeholder already holds an assistant
\* message with the same content: then it appends nothing.
C28_ReplyOnce ==
  [][(turn.pc = "reply" /\ turn'.pc = "memSave") =>
       LET kept == SelectSeqBy(NotLoading, ui.messages)
           isDuplicate == \E i \in 1..Len(kept) :
                             kept[i].role = "assistant" /\ kept[i].content = turn.response
       IN /\ \A i \in 1..Len(ui'.messages) : ~ui'.messages[i].loading
          /\ isDuplicate => ui'.messages = kept
          /\ ~isDuplicate =>
               /\ Len(ui'.messages) = Len(kept) + 1
               /\ SubSeq(ui'.messages, 1, Len(kept)) = kept
               /\ Last(ui'.messages).role = "assistant"
               /\ Last(ui'.messages).content = turn.response]_vars

\* The reply has been delivered and was already shown: the list holds an
\* assistant message with its content and none with the id of the reply.
C28_Witness ==
  /\ turn.pc = "memSave"
  /\ findIndex(ui.messages, nextId - 1) = 0
  /\ \E i \in 1..Len(ui.messages) :
       ui.messages[i].role = "assistant" /\ ui.messages[i].content = turn.response

\* C29: init() is called only when no initialisation is in progress and none
\* has succeeded, so at most one is pending and none follows a success; an
\* operation begins only with the service initialised; and a call made after
\* a failed initialisation, with none in progress, starts a new one.
C29_InitOnce ==
  /\ [](/\ Cardinality({g \in 1..Len(boot.outcome) : boot.outcome[g] = "pending"}) <= 1
        /\ \A g \in 1..Len(boot.outcome) :
             boot.outcome[g] = "fulfilled" => g = Len(boot.outcome)
        /\ boot.isInitialized <=>
             (boot.outcome # <<>> /\ Last(boot.outcome) = "fulfilled")
        /\ \A c \in 1..MaxCalls :
             (svc[c].op = "operation" /\ svc[c].pc = "began") => boot.isInitialized)
  /\ [][/\ boot'.started > boot.started =>
             /\ ~boot.isInitialized
             /\ boot.outcome = <<>> \/ Last(boot.outcome) = "rejected"
        /\ \A c \in 1..MaxCalls :
             (/\ svc[c].pc = "none" /\ svc'[c].pc # "none"
              /\ boot.outcome # <<>> /\ Last(boot.outcome) = "rejected") =>
               /\ boot'.started = boot.started + 1
               /\ svc'[c].awaits = Len(boot'.outcome)]_vars

\* An initialisation failed, a later one succeeded, and an operation began.
C29_Witness ==
  /\ Len(boot.outcome) >= 2
  /\ boot.outcome[1] = "rejected"
  /\ Last(boot.outcome) = "fulfilled"
  /\ \E c \in 1..MaxCalls : svc[c].op = "operation" /\ svc[c].pc = "began"
  /\ \E c \in 1..MaxCalls : svc[c].pc = "failed"

\* The UI message list holds a loading placeholder.
HasPlaceholder == \E i \in 1..Len(ui.messages) : ui.messages[i].loading

\* C30: a sendMessage call that has set isProcessing leads to isProcessing
\* being false again with no loading placeholder in the UI message list; a
\* completed call, whatever its outcome, has left it so.
C30_TurnSettles ==
  /\ ui.isProcessing ~> (~ui.isProcessing /\ ~HasPlaceholder)
  /\ [](turn.pc = "idle" => (~ui.isProcessing /\ ~HasPlaceholder))

\* A turn has ended on the conversation-not-found path.
C30_Witness ==
  /\ turn.pc = "idle" /\ turn.outcome = "notfound"
  /\ ~ui.isProcessing /\ ~HasPlaceholder
  /\ turns > 0

=============================================================================
